---- MODULE Spec2Model ----
(***************************************************************************)
(* Model of the VDA5050 <-> vendor-TCP bridge (mqtt_tcp_bridge_server.py): *)
(* the MQTT client manager, the TCP server manager with its accept and     *)
(* per-connection threads, the downlink message loop, the scheduled        *)
(* reporting timers and the start/stop sequence of VDA5050Server.          *)
(***************************************************************************)
EXTENDS Integers, Sequences, FiniteSets, TLC

VARIABLES
    mainPc,                 \* position of the main thread in start()/stop()
    robot_config,           \* VDA5050Server.robot_config (robot YAML, immutable)
    is_running,             \* VDA5050Server.is_running
    tcp_running,            \* TCPServerManager.is_running
    mqtt_connected,         \* MQTTClientManager.is_connected
    message_queue,          \* MQTTClientManager.message_queue
    injected,               \* number of downlink MQTT messages delivered so far
    reporting_timers,       \* VDA5050Server.reporting_timers: topic -> interval (ms)
    sock,                   \* every socket ever accepted: port, peer, open, thread
    client_connections,     \* TCPServerManager.client_connections: port -> list
    wire,                   \* per socket: the send calls issued on it, in order
    sequence_counter,       \* ManufacturerATCPProtocol.sequence_counter
    acc,                    \* accept thread of the authority port
    ml,                     \* downlink message-loop thread
    agv_info_by_vehicle_id, \* VDA5050Server.agv_info_by_vehicle_id
    agv_connections,        \* VDA5050Server.agv_connections
    latest_data_cache,      \* VDA5050Server.latest_data_cache
    lastRecv,               \* the chunk most recently returned by recv()
    recvCount,              \* number of chunks received so far
    published,              \* messages handed to the MQTT broker
    warnings,               \* warnings logged by the downlink send path
    task_id_counter,        \* task_id_counter of each converter's protocol object
    call,                   \* the function applied last: name, arguments, result
    rx,                     \* a connection fed a byte stream: chunks ahead, data parsed
    reconnect,              \* the _reconnect threads started so far
    timer,                  \* the reporting Timer chains: the tick under way, chains ended
    handler                 \* per receive thread inside _handle_state_data: its position

bridge_vars == << mainPc, robot_config, is_running, tcp_running, mqtt_connected,
                  message_queue, injected, reporting_timers, sock, client_connections,
                  wire, sequence_counter, acc, ml, agv_info_by_vehicle_id,
                  agv_connections, latest_data_cache, lastRecv, recvCount, published,
                  warnings, task_id_counter >>

vars == << bridge_vars, call, rx, reconnect, timer, handler >>

\* ---------------------------------------------------------------------------
\* Bounds of the model
\* ---------------------------------------------------------------------------
MaxSockets == 2
MaxMsgs == 1
MaxRecv == 1
MaxActions == 3
MaxEdges == 2

\* ---------------------------------------------------------------------------
\* Generic helpers
\* ---------------------------------------------------------------------------
None == [none |-> TRUE]

Get(d, k, default) == IF k \in DOMAIN d THEN d[k] ELSE default

Put(d, k, v) == [x \in (DOMAIN d) \cup {k} |-> IF x = k THEN v ELSE d[x]]

EmptyMap == [x \in {} |-> 0]

Range(s) == {s[i] : i \in DOMAIN s}

RECURSIVE RemoveFirst(_, _)
RemoveFirst(s, x) ==
    IF s = << >> THEN << >>
    ELSE IF Head(s) = x THEN Tail(s)
    ELSE << Head(s) >> \o RemoveFirst(Tail(s), x)

\* ---------------------------------------------------------------------------
\* Ports and static configuration
\* ---------------------------------------------------------------------------
VehicleIds == {"A", "B"}

StatePort == 19204
RelocationPort == 19205
MovementPort == 19206
AuthorityPort == 19207
SafetyPort == 19210
PushPort == 19301

tcp_ports ==
    (StatePort :> "stateAPI") @@ (RelocationPort :> "controlAPI") @@
    (MovementPort :> "navigationAPI") @@ (AuthorityPort :> "configAPI") @@
    (SafetyPort :> "otherAPI") @@ (PushPort :> "pushAPI")

\* the ports the modelled vehicles dial
DialPorts == {MovementPort, AuthorityPort, PushPort}

control_grab_config ==
    [port |-> AuthorityPort, message_type |-> 4005, nick_name |-> "srd-seer-mizhan"]

OrderMessageType == 3066
StatusPushType == 9300

default_agv_info == [manufacturer |-> "Demo_Manufacturer", serial_number |-> "AGV_001"]

Topics == {"state", "visualization", "connection", "factsheet"}

DefaultIntervals ==
    [state |-> 1000, visualization |-> 2000, connection |-> 5000, factsheet |-> 30000]

DefaultOptions ==
    [report_only_when_data_available |-> TRUE, stop_on_disconnect |-> TRUE,
     cache_latest_data |-> TRUE]

default_config ==
    [enable_scheduled_reporting |-> FALSE,
     reporting_intervals |-> DefaultIntervals,
     reporting_options |-> DefaultOptions]

\* robot configurations the bridge may be constructed with
RobotConfigs ==
    { None,
      [mqtt_reporting |-> [enable_scheduled_reporting |-> TRUE,
                           reporting_intervals |-> DefaultIntervals]],
      [mqtt_reporting |-> [enable_scheduled_reporting |-> TRUE,
                           reporting_intervals |-> [state |-> 500, connection |-> 5000]]] }

load_reporting_config(rc) ==
    IF "mqtt_reporting" \in DOMAIN rc THEN rc.mqtt_reporting ELSE default_config

reporting_config == load_reporting_config(robot_config)

reporting_options == Get(reporting_config, "reporting_options", EmptyMap)

\* the timers _start_reporting_timers creates: topic -> interval in ms
start_reporting_timers(cfg) ==
    IF ~Get(cfg, "enable_scheduled_reporting", FALSE) THEN EmptyMap
    ELSE LET intervals == Get(cfg, "reporting_intervals", EmptyMap)
             started == {t \in DOMAIN intervals : intervals[t] > 0}
         IN  [t \in started |-> intervals[t]]

\* ---------------------------------------------------------------------------
\* Order translator (tcp/tcp_order.py)
\* ---------------------------------------------------------------------------
VDA5050_TO_TCP_ACTION_MAPPING ==
    [pick |-> "JackLoad", drop |-> "JackUnload", translate |-> "Translate",
     turn |-> "Turn", rotateLoad |-> "RotateLoad", softEmc |-> "EmergencyStop",
     startPause |-> "Pause", stopPause |-> "Resume", cancelOrder |-> "Cancel",
     reloc |-> "Reloc", cancelReloc |-> "CancelReloc", clearErrors |-> "ClearErrors"]

\* task ids: "{base_id}_{n}", or "TASK_{timestamp}_{n}" when there is no base id
\* (n is then the protocol object's own task_id_counter, which advances)
generate_task_id(base_id, n) ==
    IF base_id # "" THEN [base |-> base_id, n |-> n] ELSE [base |-> "TASK", n |-> n]

\* result: the id and the protocol object's task_id_counter after the call
generate_tcp_task_id(base_id, counter, tc) ==
    IF base_id # ""
    THEN [id |-> generate_task_id(base_id, counter), tc |-> tc]
    ELSE [id |-> generate_task_id("", tc), tc |-> tc + 1]

RECURSIVE extract_all_operations_from_actions(_)
extract_all_operations_from_actions(actions) ==
    IF actions = << >> THEN << >>
    ELSE LET rest == extract_all_operations_from_actions(Tail(actions))
         IN  IF Head(actions) \in DOMAIN VDA5050_TO_TCP_ACTION_MAPPING
             THEN << VDA5050_TO_TCP_ACTION_MAPPING[Head(actions)] >> \o rest
             ELSE rest

\* insertion-ordered dict: a sequence of [k, v] entries with distinct keys
DictHas(d, k) == \E i \in DOMAIN d : d[i].k = k

DictGet(d, k) == d[CHOOSE i \in DOMAIN d : d[i].k = k].v

DictSet(d, k, v) ==
    IF DictHas(d, k)
    THEN [i \in DOMAIN d |-> IF d[i].k = k THEN [k |-> k, v |-> v] ELSE d[i]]
    ELSE Append(d, [k |-> k, v |-> v])

\* a variant of del that leaves the entry in place
DictKeep(d, k) == d

DictDel(d, k) == SelectSeq(d, LAMBDA e : e.k # k)

RECURSIVE node_actions_map(_)
node_actions_map(nodes) ==
    IF nodes = << >> THEN << >>
    ELSE LET n == Len(nodes)
             node == nodes[n]
             m == node_actions_map(SubSeq(nodes, 1, n - 1))
             ops == extract_all_operations_from_actions(Get(node, "actions", << >>))
         IN  IF Get(node, "nodeId", "") # "" /\ ops # << >>
             THEN DictSet(m, node.nodeId, ops)
             ELSE m

\* a variant that leaves the edges in the order of the payload
unsorted_edges(edges) == edges

\* sorted(edges, key=sequenceId): stable
RECURSIVE InsertSorted(_, _)
InsertSorted(s, e) ==
    IF s = << >> THEN << e >>
    ELSE IF Get(e, "sequenceId", 0) < Get(Head(s), "sequenceId", 0)
         THEN << e >> \o s
         ELSE << Head(s) >> \o InsertSorted(Tail(s), e)

RECURSIVE sorted_edges(_)
sorted_edges(edges) ==
    IF edges = << >> THEN << >>
    ELSE InsertSorted(sorted_edges(SubSeq(edges, 1, Len(edges) - 1)), edges[Len(edges)])

\* one in-place step per operation, appended to st.list
RECURSIVE EmitOperations(_, _, _)
EmitOperations(st, ops, prefix) ==
    IF ops = << >> THEN st
    ELSE LET g == generate_tcp_task_id(prefix, st.counter, st.tc)
         IN  EmitOperations(
                 [st EXCEPT !.list = Append(@, [source_id |-> "SELF_POSITION",
                                                id |-> "SELF_POSITION",
                                                task_id |-> g.id,
                                                operation |-> Head(ops)]),
                            !.counter = @ + 1,
                            !.tc = g.tc],
                 Tail(ops), prefix)

ProcessEdge(st, edge, prefix) ==
    LET start_node_id == Get(edge, "startNodeId", "")
        end_node_id == Get(edge, "endNodeId", "")
    IN  IF start_node_id = "" \/ end_node_id = "" THEN st
        ELSE LET st1 == IF DictHas(st.map, start_node_id)
                        THEN [EmitOperations(st, DictGet(st.map, start_node_id), prefix)
                                 EXCEPT !.map = DictDel(@, start_node_id)]
                        ELSE st
                 g == generate_tcp_task_id(prefix, st1.counter, st1.tc)
                 st2 == [st1 EXCEPT !.list = Append(@, [source_id |-> start_node_id,
                                                        id |-> end_node_id,
                                                        task_id |-> g.id]),
                                    !.counter = @ + 1,
                                    !.tc = g.tc]
             IN  EmitOperations(st2,
                     extract_all_operations_from_actions(Get(edge, "actions", << >>)),
                     prefix)

RECURSIVE ProcessEdges(_, _, _)
ProcessEdges(st, edges, prefix) ==
    IF edges = << >> THEN st
    ELSE ProcessEdges(ProcessEdge(st, Head(edges), prefix), Tail(edges), prefix)

\* a variant that emits nothing for the nodes left in the map
EmitNoRemaining(st, entries, prefix) == st

RECURSIVE EmitRemaining(_, _, _)
EmitRemaining(st, entries, prefix) ==
    IF entries = << >> THEN st
    ELSE EmitRemaining(EmitOperations(st, Head(entries).v, prefix), Tail(entries), prefix)

\* result: the move-task list and the protocol object's task_id_counter afterwards
convert_vda5050_order_to_tcp_move_task_list(vda_json, tc) ==
    LET prefix == Get(vda_json, "orderId", "DEFAULT_ORDER")
        edges == sorted_edges(Get(vda_json, "edges", << >>))
        st0 == [map |-> node_actions_map(Get(vda_json, "nodes", << >>)),
                counter |-> 1, list |-> << >>, tc |-> tc]
        st1 == ProcessEdges(st0, edges, prefix)
        last_end == IF edges = << >> THEN ""
                    ELSE Get(edges[Len(edges)], "endNodeId", "")
        st2 == IF last_end # "" /\ DictHas(st1.map, last_end)
               THEN [EmitOperations(st1, DictGet(st1.map, last_end), prefix)
                        EXCEPT !.map = DictDel(@, last_end)]
               ELSE st1
        st3 == EmitRemaining(st2, st2.map, prefix)
    IN  [data |-> [move_task_list |-> st3.list], tc |-> st3.tc]

\* ProtocolConverter.vda5050_order_to_tcp: one packet for the movement port
vda5050_order_to_tcp(order_data, tc) ==
    LET r == convert_vda5050_order_to_tcp_move_task_list(order_data, tc)
    IN  [items |-> << [port |-> MovementPort, message_type |-> OrderMessageType,
                       data |-> r.data] >>,
         tc |-> r.tc]

\* ---------------------------------------------------------------------------
\* Instant-action translator (tcp/tcp_instantActions.py)
\* An action is a record [actionType, actionParameters]; actionParameters is
\* the key -> value mapping _parse_action_parameters builds.
\* ---------------------------------------------------------------------------
ACTION_MAPPING == VDA5050_TO_TCP_ACTION_MAPPING

ActionConfig(port, message_type, data_format) ==
    [port |-> port, message_type |-> message_type, data_format |-> data_format]

ACTION_CONFIG ==
    [pick |-> ActionConfig(MovementPort, 3066, "move_task_list"),
     drop |-> ActionConfig(MovementPort, 3066, "move_task_list"),
     startPause |-> ActionConfig(MovementPort, 3001, "empty_data"),
     stopPause |-> ActionConfig(MovementPort, 3002, "empty_data"),
     cancelOrder |-> ActionConfig(MovementPort, 3003, "empty_data"),
     reloc |-> ActionConfig(RelocationPort, 2002, "single_field"),
     cancelReloc |-> ActionConfig(RelocationPort, 2004, "empty_data"),
     clearErrors |-> ActionConfig(AuthorityPort, 4009, "single_field"),
     rotateLoad |-> ActionConfig(MovementPort, 3057, "single_field"),
     softEmc |-> ActionConfig(SafetyPort, 6004, "single_field"),
     turn |-> ActionConfig(MovementPort, 3056, "single_field"),
     translate |-> ActionConfig(MovementPort, 3055, "single_field")]

Restrict(params, keys) == [k \in (DOMAIN params) \cap keys |-> params[k]]

parse_action_parameters(action) == Get(action, "actionParameters", EmptyMap)

\* float() and int() of a parameter value: the texts they accept, in
\* thousandths and in units; any other text raises ValueError
FloatTexts == [t \in {"90", "1.5"} |-> IF t = "90" THEN 90000 ELSE 1500]

float(text) == FloatTexts[text]

IntTexts == [t \in {"0", "1"} |-> IF t = "0" THEN 0 ELSE 1]

int(text) == IntTexts[text]

FloatFields ==
    {"length", "x", "y", "angle", "dist", "vx", "vy", "vw", "increase_spin_angle",
     "robot_spin_angle", "global_spin_angle"}

IntFields == {"mode", "spin_direction"}

\* the parameters _generate_single_field_data copies or converts
single_field_parameters(action) ==
    LET action_type == action.actionType
        p == parse_action_parameters(action)
    IN  CASE action_type = "reloc" ->
               LET is_auto == Get(p, "isAuto", FALSE)
                   home == Get(p, "home", FALSE)
               IN  IF ~is_auto /\ ~home
                   THEN Restrict(p, {"isAuto", "home", "length", "x", "y", "angle"})
                   ELSE Restrict(p, {"isAuto", "home", "length"})
          [] action_type = "clearErrors" ->
               IF "error_codes" \in DOMAIN p /\ p.error_codes # << >>
               THEN [error_codes |-> p.error_codes]
               ELSE EmptyMap
          [] action_type = "translate" -> Restrict(p, {"dist", "vx", "vy", "mode"})
          [] action_type = "turn" -> Restrict(p, {"angle", "vw", "mode"})
          [] action_type = "rotateLoad" ->
               Restrict(p, {"increase_spin_angle", "robot_spin_angle",
                            "global_spin_angle", "spin_direction"})
          [] action_type = "softEmc" -> Restrict(p, {"status"})
          [] OTHER -> EmptyMap

\* a numeric field that is present, not '', and not convertible
single_field_raises(action) ==
    LET q == single_field_parameters(action)
    IN  \E k \in DOMAIN q :
           \/ k \in FloatFields /\ q[k] # "" /\ q[k] \notin DOMAIN FloatTexts
           \/ k \in IntFields /\ q[k] # "" /\ q[k] \notin DOMAIN IntTexts

generate_single_field_data(action) ==
    LET q == single_field_parameters(action)
        kept == { k \in DOMAIN q : k \in FloatFields \cup IntFields => q[k] # "" }
    IN  [k \in kept |-> IF k \in FloatFields THEN float(q[k])
                        ELSE IF k \in IntFields THEN int(q[k])
                        ELSE q[k]]

\* result: the data and the protocol object's task_id_counter afterwards
generate_tcp_data(action, config, base_task_id, counter, tc) ==
    CASE config.data_format = "move_task_list" ->
           LET g == generate_tcp_task_id(base_task_id, counter, tc)
           IN  [data |-> [move_task_list |->
                            << [id |-> "SELF_POSITION", source_id |-> "SELF_POSITION",
                                task_id |-> g.id,
                                operation |-> ACTION_MAPPING[action.actionType]] >>],
                tc |-> g.tc]
      [] config.data_format = "empty_data" -> [data |-> EmptyMap, tc |-> tc]
      [] config.data_format = "single_field" ->
           [data |-> generate_single_field_data(action), tc |-> tc]
      [] OTHER -> [data |-> EmptyMap, tc |-> tc]

\* a variant that gives up at the first action ACTION_CONFIG does not know
RECURSIVE analyze_until_unknown(_)
analyze_until_unknown(actions) ==
    IF actions = << >> THEN << >>
    ELSE LET n == Len(actions)
             action == actions[n]
             before == analyze_until_unknown(SubSeq(actions, 1, n - 1))
         IN  IF Len(before) = n - 1 /\ Get(action, "actionType", "") \in DOMAIN ACTION_CONFIG
             THEN Append(before,
                         [actionType |-> action.actionType,
                          port |-> ACTION_CONFIG[action.actionType].port,
                          messageType |-> ACTION_CONFIG[action.actionType].message_type,
                          index |-> n])
             ELSE before

\* the actions ACTION_CONFIG knows, each with its index in the payload
RECURSIVE analyze_instant_action_configs(_)
analyze_instant_action_configs(actions) ==
    IF actions = << >> THEN << >>
    ELSE LET n == Len(actions)
             action == actions[n]
             before == analyze_instant_action_configs(SubSeq(actions, 1, n - 1))
         IN  IF Get(action, "actionType", "") \in DOMAIN ACTION_CONFIG
             THEN Append(before,
                         [actionType |-> action.actionType,
                          port |-> ACTION_CONFIG[action.actionType].port,
                          messageType |-> ACTION_CONFIG[action.actionType].message_type,
                          index |-> n])
             ELSE before

ConversionError == [error |-> "no supported action"]

\* the record convert_vda5050_instant_actions returns from its except clause
ConversionFailed ==
    [error |-> "instant action conversion failed",
     message |-> "could not convert string to float"]

\* convert_vda5050_instant_actions applied to the single-action payload the
\* bridge builds for one config entry
convert_single_instant_action(header_id, action, tc) ==
    LET base_task_id == IF header_id = 0 THEN "" ELSE ToString(header_id)
    IN  IF Get(action, "actionType", "") \notin DOMAIN ACTION_MAPPING
        THEN [data |-> ConversionError, tc |-> tc]
        ELSE IF ACTION_CONFIG[action.actionType].data_format = "single_field"
                /\ single_field_raises(action)
        THEN [data |-> ConversionFailed, tc |-> tc]
        ELSE generate_tcp_data(action, ACTION_CONFIG[action.actionType],
                               base_task_id, 1, tc)

RECURSIVE InstantItems(_, _, _, _)
InstantItems(configs, actions_data, tc, acc_items) ==
    IF configs = << >> THEN [items |-> acc_items, tc |-> tc]
    ELSE LET config == Head(configs)
             action == actions_data.actions[config.index]
             r == convert_single_instant_action(Get(actions_data, "headerId", 0), action, tc)
         IN  InstantItems(Tail(configs), actions_data, r.tc,
                          Append(acc_items, [port |-> config.port,
                                             message_type |-> config.messageType,
                                             data |-> r.data]))

\* ProtocolConverter.vda5050_instant_actions_to_tcp
vda5050_instant_actions_to_tcp(actions_data, tc) ==
    InstantItems(analyze_instant_action_configs(Get(actions_data, "actions", << >>)),
                 actions_data, tc, << >>)

\* ---------------------------------------------------------------------------
\* Uplink: what a vehicle writes to a socket and how the bridge reads it
\* A chunk (one recv()) is a sequence of units: a 16-byte packet header or a
\* JSON document.
\* ---------------------------------------------------------------------------
SyncHeader == 90

HeaderUnit(mt) == [u |-> "hdr", sync |-> SyncHeader, mt |-> mt]

JsonUnit(obj) == [u |-> "json", obj |-> obj]

StateBody(agv, x) == [vehicle_id |-> agv, x |-> x, y |-> 0, angle |-> 0]

\* the vendor's framed state push: header (type 9300) followed by the JSON body
FramedState(agv, x) == << HeaderUnit(StatusPushType), JsonUnit(StateBody(agv, x)) >>

\* a bare JSON document
RawState(agv, x) == << JsonUnit(StateBody(agv, x)) >>

Chunks(agv, x) == { FramedState(agv, x), RawState(agv, x) }

\* json.loads(data.decode('utf-8').strip()): succeeds only when the whole chunk
\* is one JSON document
parse_tcp_data(data, port_type) ==
    IF Len(data) = 1 /\ data[1].u = "json"
    THEN Put(data[1].obj, "data_type", port_type)
    ELSE None

EmptyCacheEntry ==
    [state |-> None, visualization |-> None, connection |-> None,
     factsheet |-> None, last_tcp_data |-> None]

\* Numbers of a state push (coordinates, angles, speeds, confidence) are
\* fixed-point, in thousandths: 1000 is 1.0, math_pi is 3.142.
math_pi == 3142

\* math.radians(angle)
radians(angle) == (angle * math_pi) \div 180000

abs(v) == IF v < 0 THEN 0 - v ELSE v

\* AGVToVDA5050Converter.convert_agv_data_to_vda5050_state, get_message_dict:
\* position, velocity and driving flag of the state message
tcp_state_to_vda5050(tcp_data) ==
    [serialNumber |-> Get(tcp_data, "vehicle_id", "AGV_001"),
     agvPosition |->
         IF "x" \in DOMAIN tcp_data /\ "y" \in DOMAIN tcp_data
         THEN [x |-> tcp_data.x, y |-> tcp_data.y,
               theta |-> Get(tcp_data, "angle", 0),
               mapId |-> Get(tcp_data, "current_map", "default_map")]
         ELSE None,
     velocity |->
         IF DOMAIN tcp_data \cap {"vx", "vy", "w"} # {}
         THEN [vx |-> Get(tcp_data, "vx", 0), vy |-> Get(tcp_data, "vy", 0),
               omega |-> Get(tcp_data, "w", 0)]
         ELSE None,
     driving |-> ~Get(tcp_data, "is_stop", TRUE)]

\* TCPStateToVisualizationConverter._extract_agv_position
extract_agv_position(tcp_state) ==
    IF {"x", "y", "angle"} \subseteq DOMAIN tcp_state
    THEN LET angle == tcp_state.angle
             theta == IF abs(angle) > math_pi * 2 THEN radians(angle) ELSE angle
             position == [x |-> tcp_state.x, y |-> tcp_state.y,
                          theta |-> ((theta + math_pi) % (2 * math_pi)) - math_pi,
                          mapId |-> Get(tcp_state, "current_map", "unknown_map"),
                          positionInitialized |-> TRUE]
         IN  IF "confidence" \in DOMAIN tcp_state
             THEN LET capped == IF tcp_state.confidence < 1000
                                THEN tcp_state.confidence ELSE 1000
                  IN  Put(position, "localizationScore", IF capped > 0 THEN capped ELSE 0)
             ELSE position
    ELSE None

\* TCPStateToVisualizationConverter._extract_velocity, Velocity.to_dict
extract_velocity(tcp_state) ==
    LET given == DOMAIN tcp_state \cap {"vx", "vy", "w"}
    IN  IF given = {} THEN None
        ELSE [k \in { IF g = "w" THEN "omega" ELSE g : g \in given } |->
                 IF k = "omega" THEN tcp_state.w ELSE tcp_state[k]]

tcp_state_to_visualization(tcp_data) ==
    [serialNumber |-> Get(tcp_data, "vehicle_id", ""),
     manufacturer |-> "TCP_AGV",
     agvPosition |-> extract_agv_position(tcp_data),
     velocity |-> extract_velocity(tcp_data)]

create_connection_message(agv_data) ==
    [manufacturer |-> Get(agv_data, "manufacturer", "AGV_Manufacturer"),
     serialNumber |-> Get(agv_data, "vehicle_id", "AGV_001"),
     connectionState |-> "ONLINE"]

get_or_create_agv_info(info, vehicle_id, manufacturer, connection_id) ==
    IF vehicle_id \in DOMAIN info
    THEN [info EXCEPT ![vehicle_id].connection_id = connection_id]
    ELSE Put(info, vehicle_id, [manufacturer |-> manufacturer,
                                serial_number |-> vehicle_id,
                                connection_id |-> connection_id])

\* a state handler that publishes the connection message it has just built
handle_state_data_publishes_connection(tcp_data) ==
    { [topic |-> "connection",
       manufacturer |-> Get(tcp_data, "manufacturer", default_agv_info.manufacturer),
       serial_number |-> Get(tcp_data, "vehicle_id", "UNKNOWN_AGV"),
       data |-> create_connection_message(tcp_data)] }

\* the messages _handle_state_data itself hands to the broker: none, it only
\* caches ("cache the data, the timers report it")
handle_state_data_publishes(tcp_data) == {}

\* the cache after _handle_state_data
handle_state_data_cache(cache, tcp_data, options) ==
    LET vehicle_id == Get(tcp_data, "vehicle_id", "UNKNOWN_AGV")
        entry == Get(cache, vehicle_id, EmptyCacheEntry)
        e1 == [entry EXCEPT !.last_tcp_data = tcp_data]
        e2 == IF Get(options, "cache_latest_data", TRUE)
              THEN [e1 EXCEPT !.state = tcp_state_to_vda5050(tcp_data),
                              !.visualization = tcp_state_to_visualization(tcp_data),
                              !.connection = create_connection_message(tcp_data)]
              ELSE e1
    IN  Put(cache, vehicle_id, e2)

\* ---------------------------------------------------------------------------
\* Scheduled reports
\* ---------------------------------------------------------------------------
\* a variant that takes the position from the cached state message and the
\* rest from the cached push
generate_state_message_from_fields(entry) ==
    IF entry.last_tcp_data # None /\ entry.state # None
    THEN [tcp_state_to_vda5050(entry.last_tcp_data)
             EXCEPT !.agvPosition = entry.state.agvPosition]
    ELSE IF entry.last_tcp_data # None THEN tcp_state_to_vda5050(entry.last_tcp_data)
    ELSE entry.state

generate_state_message(entry) ==
    IF entry.last_tcp_data # None THEN tcp_state_to_vda5050(entry.last_tcp_data)
    ELSE entry.state

generate_visualization_message(entry) ==
    IF entry.last_tcp_data # None THEN tcp_state_to_visualization(entry.last_tcp_data)
    ELSE entry.visualization

generate_connection_message(entry, agv_info) ==
    IF entry.last_tcp_data # None THEN create_connection_message(entry.last_tcp_data)
    ELSE [manufacturer |-> agv_info.manufacturer,
          serialNumber |-> agv_info.serial_number,
          connectionState |-> "ONLINE"]

\* static per robot configuration file, sample data when there is none
generate_factsheet_message(agv_info, rc) ==
    IF rc # None THEN [factsheet |-> "config"]
    ELSE [factsheet |-> "sample", serialNumber |-> agv_info.serial_number]

\* the data _report_message_for_agv publishes for one vehicle, None when it skips
report_data(cache, agv_id, agv_info, message_type, options, rc) ==
    IF agv_id \notin DOMAIN cache THEN None
    ELSE IF Get(options, "report_only_when_data_available", TRUE)
            /\ cache[agv_id].last_tcp_data = None THEN None
    ELSE CASE message_type = "state" -> generate_state_message(cache[agv_id])
           [] message_type = "visualization" -> generate_visualization_message(cache[agv_id])
           [] message_type = "connection" -> generate_connection_message(cache[agv_id], agv_info)
           [] message_type = "factsheet" -> generate_factsheet_message(agv_info, rc)
           [] OTHER -> None

Uplink(message_type, manufacturer, serial_number, data) ==
    [topic |-> message_type, manufacturer |-> manufacturer,
     serial_number |-> serial_number, data |-> data]

\* the vehicles a tick of message_type publishes for
Reported(message_type) ==
    { v \in DOMAIN agv_info_by_vehicle_id :
        /\ mqtt_connected
        /\ report_data(latest_data_cache, v, agv_info_by_vehicle_id[v], message_type,
                       reporting_options, robot_config) # None }

\* ---------------------------------------------------------------------------
\* Downlink MQTT messages
\* A topic is the list of its '/'-separated segments.
\* ---------------------------------------------------------------------------
Topic(manufacturer, serial, kind) == << "uagv", "v2", manufacturer, serial, kind >>

\* segments that make "'/order' in topic" / "'/instantActions' in topic" true:
\* those that begin with the word
OrderPrefixed == {"order", "orderbots", "order-7"}

InstantActionsPrefixed == {"instantActions", "instantActionsLab"}

ContainsOrder(topic) == \E i \in DOMAIN topic : topic[i] \in OrderPrefixed

ContainsInstantActions(topic) == \E i \in DOMAIN topic : topic[i] \in InstantActionsPrefixed

parse_topic_for_agv_info(topic) ==
    IF Len(topic) >= 4 /\ topic[1] = "uagv" /\ topic[2] = "v2"
    THEN [manufacturer |-> topic[3], serial_number |-> topic[4]]
    ELSE None

\* _handle_mqtt_message: the handler a topic is given to
handle_mqtt_message(topic) ==
    IF parse_topic_for_agv_info(topic) = None THEN "unparsed"
    ELSE IF ContainsOrder(topic) THEN "order"
    ELSE IF ContainsInstantActions(topic) THEN "instantActions"
    ELSE "unknown"

Order1 ==
    [orderId |-> "ORD1",
     nodes |-> << [nodeId |-> "N1", sequenceId |-> 0, actions |-> << "pick" >>],
                  [nodeId |-> "N2", sequenceId |-> 2, actions |-> << >>] >>,
     edges |-> << [edgeId |-> "E1", sequenceId |-> 1, startNodeId |-> "N1",
                   endNodeId |-> "N2", actions |-> << >>] >>]

Action(action_type, params) == [actionType |-> action_type, actionParameters |-> params]

DownlinkMessages ==
    { [topic |-> Topic("Demo_Manufacturer", "A", "order"), payload |-> Order1],
      [topic |-> Topic("Demo_Manufacturer", "B", "order"), payload |-> Order1],
      [topic |-> Topic("Demo_Manufacturer", "A", "instantActions"),
       payload |-> [headerId |-> 7,
                    actions |-> << Action("clearErrors", [error_codes |-> << 52 >>]) >>]],
      [topic |-> Topic("Demo_Manufacturer", "B", "instantActions"),
       payload |-> [headerId |-> 8,
                    actions |-> << Action("factsheetRequest", EmptyMap),
                                   Action("startPause", EmptyMap) >>]],
      [topic |-> Topic("Demo_Manufacturer", "A", "instantActions"),
       payload |-> [headerId |-> 9,
                    actions |-> << Action("turn", [angle |-> "fast"]) >>]] }

\* ---------------------------------------------------------------------------
\* Frames and the wire
\* ---------------------------------------------------------------------------
\* _get_next_sequence: the counter after handing out its current value
next_sequence_counter(c) == IF c + 1 > 65535 THEN 1 ELSE c + 1

\* create_binary_tcp_packet; "for" is the vehicle the caller addressed
Frame(seq, message_type, data, for) ==
    [sequence |-> seq, message_type |-> message_type, data |-> data, for |-> for]

NoFrame == Frame(0, 0, EmptyMap, "")

WireEvent(ev, frame) == [ev |-> ev, frame |-> frame]

MlIdle == [st |-> "idle", items |-> << >>, conns |-> << >>, frame |-> NoFrame,
           port |-> 0, target |-> ""]

AccIdle == [st |-> "accept", s |-> 0, frame |-> NoFrame]

\* an accept loop that skips the grab step on every port
NeedsGrab_never(port) == FALSE

NeedsGrab(port) == port = control_grab_config.port

\* ---------------------------------------------------------------------------
\* Packets as bytes: ManufacturerATCPProtocol, TCPBinaryParser and the
\* simulator's TCPBinaryProtocol. A byte is a number in 0..255, bytes and str
\* are sequences of them.
\* ---------------------------------------------------------------------------
Fail == [fail |-> TRUE]

\* bytes[a:b] of Python: positions a .. b-1, cut at the end of the data
Slice(data, a, b) == SubSeq(data, a + 1, IF b < Len(data) THEN b ELSE Len(data))

\* int.to_bytes(k, 'big')
RECURSIVE to_bytes(_, _)
to_bytes(n, k) == IF k = 0 THEN << >> ELSE Append(to_bytes(n \div 256, k - 1), n % 256)

\* int.from_bytes(b, 'big'), struct.unpack('>H'), struct.unpack('>I')
RECURSIVE from_bytes(_)
from_bytes(b) ==
    IF b = << >> THEN 0 ELSE from_bytes(SubSeq(b, 1, Len(b) - 1)) * 256 + b[Len(b)]

\* bytes.decode('utf-8'): the bytes below 0x80 are ASCII; the only byte above
\* that the model feeds in is a lone 0xFF, which is never valid UTF-8
utf8_decode(data) == [ok |-> \A i \in DOMAIN data : data[i] < 128, text |-> data]

\* bytes.decode('utf-8', errors='ignore')
utf8_decode_ignore(data) == SelectSeq(data, LAMBDA b : b < 128)

\* str.strip(): leading and trailing whitespace is removed
PyWhitespace == (9 .. 13) \cup (28 .. 32)

RECURSIVE lstrip(_, _)
lstrip(text, ws) ==
    IF text # << >> /\ text[1] \in ws THEN lstrip(Tail(text), ws) ELSE text

RECURSIVE rstrip(_, _)
rstrip(text, ws) ==
    IF text # << >> /\ text[Len(text)] \in ws
    THEN rstrip(SubSeq(text, 1, Len(text) - 1), ws) ELSE text

strip(text) == rstrip(lstrip(text, PyWhitespace), PyWhitespace)

\* The JSON documents of the model with their compact text
\* (json.dumps(..., separators=(',', ':'))):  {}   {"id":1}   1
JsonEmptyDict == [kind |-> "dict", members |-> << >>]
JsonIdDict == [kind |-> "dict", members |-> << << "id", 1 >> >>]
JsonOne == [kind |-> "int", value |-> 1]

JsonDocuments ==
    { [value |-> JsonEmptyDict, text |-> << 123, 125 >>],
      [value |-> JsonIdDict, text |-> << 123, 34, 105, 100, 34, 58, 49, 125 >>],
      [value |-> JsonOne, text |-> << 49 >>] }

json_dumps(value) == (CHOOSE d \in JsonDocuments : d.value = value).text

\* json.loads: whitespace around the document is allowed; every text that is
\* not one of the documents is, in the streams of the model, no JSON at all
JsonWhitespace == {9, 10, 13, 32}

json_loads(text) ==
    LET t == rstrip(lstrip(text, JsonWhitespace), JsonWhitespace)
    IN  IF \E d \in JsonDocuments : d.text = t
        THEN (CHOOSE d \in JsonDocuments : d.text = t).value
        ELSE Fail

\* truth value of a parsed document ("x or y")
Truthy(value) ==
    IF value.kind = "dict" THEN value.members # << >> ELSE value.value # 0

PyStr(text) == [kind |-> "str", text |-> text]

\* ManufacturerATCPProtocol.create_binary_tcp_packet with the sequence number
\* that _get_next_sequence handed out; an exception gives b''
create_binary_tcp_packet(message_type, data, sequence) ==
    IF message_type >= 65536 THEN << >>
    ELSE LET data_bytes == json_dumps(data)
         IN  << SyncHeader, 1 >> \o to_bytes(sequence, 2) \o to_bytes(Len(data_bytes), 4)
                 \o to_bytes(message_type, 2) \o << 0, 0, 0, 0, 0, 0 >> \o data_bytes

\* ManufacturerATCPProtocol._parse_binary_packet
ManufacturerA_parse_binary_packet(data) ==
    IF Len(data) < 16 THEN None
    ELSE LET data_length == from_bytes(Slice(data, 4, 8))
             payload_data == IF Len(data) >= 16 + data_length
                             THEN Slice(data, 16, 16 + data_length)
                             ELSE Slice(data, 16, Len(data))
             payload_str == utf8_decode(payload_data)
             payload_json == IF payload_str.ok THEN json_loads(payload_str.text) ELSE Fail
         IN  [ format |-> "binary",
               sync_header |-> data[1],
               version |-> data[2],
               sequence |-> from_bytes(Slice(data, 2, 4)),
               data_length |-> data_length,
               message_type |-> from_bytes(Slice(data, 8, 10)),
               reserved |-> Slice(data, 10, 16),
               payload |-> IF payload_data = << >> THEN None
                           ELSE IF payload_json # Fail /\ Truthy(payload_json)
                                THEN payload_json
                                ELSE IF payload_json # Fail THEN PyStr(payload_str.text)
                                ELSE PyStr(utf8_decode_ignore(payload_data)),
               raw_payload |-> IF payload_data = << >> THEN None ELSE payload_data ]

\* ManufacturerATCPProtocol.parse_tcp_packet: JSON text first, else binary
ManufacturerA_parse_tcp_packet(data) ==
    IF Len(data) < 16 THEN None
    ELSE LET json_str == utf8_decode(data)
             parsed_data == IF json_str.ok THEN json_loads(json_str.text) ELSE Fail
         IN  IF parsed_data = Fail THEN ManufacturerA_parse_binary_packet(data)
             ELSE IF parsed_data.kind # "dict" THEN None
             ELSE [ format |-> "json", message_type |-> 0, raw_json |-> parsed_data ]

\* TCPBinaryParser._parse_payload
TCPBinaryParser_parse_payload(payload) ==
    LET json_str == utf8_decode(payload)
        parsed == IF json_str.ok THEN json_loads(json_str.text) ELSE Fail
    IN  IF parsed # Fail THEN [type |-> "json", data |-> parsed]
        ELSE IF json_str.ok
                /\ \A i \in DOMAIN payload : payload[i] \in (32 .. 126) \cup {9, 10, 13}
             THEN [type |-> "text", data |-> PyStr(json_str.text)]
             ELSE [type |-> "binary", data |-> [hex |-> payload, length |-> Len(payload)]]

\* TCPBinaryParser.parse_tcp_packet
TCPBinaryParser_parse_tcp_packet(data) ==
    IF Len(data) < 16 THEN None
    ELSE LET data_length == from_bytes(Slice(data, 4, 8))
             payload == Slice(data, 16, 16 + data_length)
         IN  IF data[1] # SyncHeader THEN None
             ELSE IF Len(data) < 16 + data_length THEN None
             ELSE [ sync_header |-> data[1],
                    version |-> data[2],
                    sequence |-> from_bytes(Slice(data, 2, 4)),
                    data_length |-> data_length,
                    message_type |-> from_bytes(Slice(data, 8, 10)),
                    reserved |-> Slice(data, 10, 16),
                    payload_raw |-> payload,
                    payload_parsed |-> TCPBinaryParser_parse_payload(payload) ]

\* TCPBinaryProtocol.parse_binary_packet of the simulator
TCPBinaryProtocol_parse_binary_packet(data) ==
    IF Len(data) < 16 THEN None
    ELSE LET data_length == from_bytes(Slice(data, 4, 8))
             payload == Slice(data, 16, 16 + data_length)
             payload_str == utf8_decode(payload)
             payload_data == IF payload_str.ok THEN json_loads(payload_str.text) ELSE Fail
         IN  IF data[1] # 90 THEN None
             ELSE IF data_length < 0 \/ data_length > 100000 THEN None
             ELSE IF Len(data) < 16 + data_length THEN None
             ELSE [ message_type |-> from_bytes(Slice(data, 8, 10)),
                    sequence |-> from_bytes(Slice(data, 2, 4)),
                    data_length |-> data_length,
                    payload |-> IF ~payload_str.ok THEN [hex |-> payload]
                                ELSE IF payload_data = Fail THEN PyStr(payload_str.text)
                                ELSE payload_data,
                    raw_data |-> data,
                    sync_header |-> data[1],
                    version |-> data[2] ]

\* TCPServerManager._parse_tcp_data on the bytes recv() returned: the chunk is
\* taken for one JSON text; everything else, a JSON text that is no object
\* included (the item assignment raises), is logged and gives None
TCPServerManager_parse_tcp_data(data, port_type) ==
    LET decoded == utf8_decode(data)
        parsed_data == IF decoded.ok THEN json_loads(strip(decoded.text)) ELSE Fail
    IN  IF parsed_data = Fail THEN None
        ELSE IF parsed_data.kind # "dict" THEN None
        ELSE [json |-> parsed_data, data_type |-> port_type]

\* no function applied yet; no stream fed to a connection yet (each behaviour
\* of the second specification applies one function or feeds one stream)
NoCall == [fn |-> "none"]

RxIdle ==
    [pending |-> << >>, parsed |-> << >>, sent |-> << >>, garbage |-> << >>,
     chunking |-> "whole"]

\* ---------------------------------------------------------------------------
\* Initial state: the server object after construction
\* ---------------------------------------------------------------------------
\* no tick under way, no Timer chain ended
NoTick == [message_type |-> "", used |-> 0, todo |-> {}]

TimerIdle == [dead |-> {}, tick |-> NoTick]

Init ==
    /\ mainPc = "init"
    /\ robot_config \in RobotConfigs
    /\ is_running = FALSE
    /\ tcp_running = FALSE
    /\ mqtt_connected = FALSE
    /\ message_queue = << >>
    /\ injected = 0
    /\ reporting_timers = EmptyMap
    /\ sock = << >>
    /\ client_connections = [p \in DOMAIN tcp_ports |-> << >>]
    /\ wire = << >>
    /\ sequence_counter = 1
    /\ acc = AccIdle
    /\ ml = MlIdle
    /\ agv_info_by_vehicle_id = EmptyMap
    /\ agv_connections = EmptyMap
    /\ latest_data_cache = EmptyMap
    /\ lastRecv = None
    /\ recvCount = 0
    /\ published = {}
    /\ warnings = {}
    /\ task_id_counter = [order |-> 1, instant |-> 1]
    /\ call = NoCall
    /\ rx = RxIdle
    /\ reconnect = << >>
    /\ timer = TimerIdle
    /\ handler = << >>

\* ---------------------------------------------------------------------------
\* VDA5050Server.start / stop (main thread)
\* ---------------------------------------------------------------------------
\* start(): MQTT connects, TCP servers, message loop and timers are started
StartOk ==
    /\ mainPc = "init"
    /\ mainPc' = "running"
    /\ mqtt_connected' = TRUE
    /\ tcp_running' = TRUE
    /\ is_running' = TRUE
    /\ reporting_timers' = start_reporting_timers(reporting_config)
    /\ UNCHANGED << call, rx, reconnect, timer, handler >>
    /\ UNCHANGED << robot_config, message_queue, injected, sock, client_connections,
                    wire, sequence_counter, acc, ml, agv_info_by_vehicle_id,
                    agv_connections, latest_data_cache, lastRecv, recvCount,
                    published, warnings, task_id_counter >>

\* start(): the MQTT connection fails, start() calls stop()
StartFail ==
    /\ mainPc = "init"
    /\ mainPc' = "stop_mqtt"
    /\ is_running' = FALSE
    /\ reporting_timers' = EmptyMap
    /\ UNCHANGED << call, rx, reconnect, timer, handler >>
    /\ UNCHANGED << robot_config, tcp_running, mqtt_connected, message_queue, injected,
                    sock, client_connections, wire, sequence_counter, acc, ml,
                    agv_info_by_vehicle_id, agv_connections, latest_data_cache,
                    lastRecv, recvCount, published, warnings, task_id_counter >>

\* stop(), first part: is_running = False, _stop_reporting_timers()
StopTimers ==
    /\ mainPc = "running"
    /\ mainPc' = "stop_mqtt"
    /\ is_running' = FALSE
    /\ reporting_timers' = EmptyMap
    /\ UNCHANGED << call, rx, reconnect, timer, handler >>
    /\ UNCHANGED << robot_config, tcp_running, mqtt_connected, message_queue, injected,
                    sock, client_connections, wire, sequence_counter, acc, ml,
                    agv_info_by_vehicle_id, agv_connections, latest_data_cache,
                    lastRecv, recvCount, published, warnings, task_id_counter >>

\* stop(), second part: mqtt_manager.disconnect()
StopMqtt ==
    /\ mainPc = "stop_mqtt"
    /\ mainPc' = "stop_tcp"
    /\ mqtt_connected' = FALSE
    /\ UNCHANGED << call, rx, reconnect, timer, handler >>
    /\ UNCHANGED << robot_config, is_running, tcp_running, message_queue, injected,
                    reporting_timers, sock, client_connections, wire, sequence_counter,
                    acc, ml, agv_info_by_vehicle_id, agv_connections,
                    latest_data_cache, lastRecv, recvCount, published, warnings,
                    task_id_counter >>

\* stop(), third part: tcp_manager.stop_servers() closes every connection
StopServers ==
    /\ mainPc = "stop_tcp"
    /\ mainPc' = "stopped"
    /\ tcp_running' = FALSE
    /\ sock' = [i \in DOMAIN sock |->
                  IF \E p \in DOMAIN client_connections : i \in Range(client_connections[p])
                  THEN [sock[i] EXCEPT !.open = FALSE] ELSE sock[i]]
    /\ UNCHANGED << call, rx, reconnect, timer, handler >>
    /\ UNCHANGED << robot_config, is_running, mqtt_connected, message_queue, injected,
                    reporting_timers, client_connections, wire, sequence_counter, acc, ml,
                    agv_info_by_vehicle_id, agv_connections, latest_data_cache,
                    lastRecv, recvCount, published, warnings, task_id_counter >>

\* a variant of the queue that hands out the newest message first
queue_put_lifo(q, m) == << m >> \o q

\* queue.Queue.put: first in, first out
queue_put(q, m) == Append(q, m)

\* ---------------------------------------------------------------------------
\* MQTT receive callback
\* ---------------------------------------------------------------------------
OnMessage(m) ==
    /\ mqtt_connected
    /\ injected < MaxMsgs
    /\ injected' = injected + 1
    /\ message_queue' = queue_put(message_queue, m)
    /\ UNCHANGED << call, rx, reconnect, timer, handler >>
    /\ UNCHANGED << mainPc, robot_config, is_running, tcp_running, mqtt_connected,
                    reporting_timers, sock, client_connections, wire, sequence_counter,
                    acc, ml, agv_info_by_vehicle_id, agv_connections,
                    latest_data_cache, lastRecv, recvCount, published, warnings,
                    task_id_counter >>

\* ---------------------------------------------------------------------------
\* Accept threads (_start_tcp_server) and the authority grab
\* ---------------------------------------------------------------------------
NewSocket(agv, port, thread) == [port |-> port, agv |-> agv, open |-> TRUE, thread |-> thread]

\* one iteration of the accept loop of a port: the socket is appended to
\* client_connections; on the authority port the grab follows, elsewhere the
\* connection thread is started at once
Accept(agv, port) ==
    /\ tcp_running
    /\ Len(sock) < MaxSockets
    /\ NeedsGrab(port) => acc.st = "accept"
    /\ LET s == Len(sock) + 1
       IN  /\ sock' = Append(sock, NewSocket(agv, port,
                                   IF NeedsGrab(port) THEN "none" ELSE "run"))
           /\ wire' = Append(wire, << >>)
           /\ client_connections' = [client_connections EXCEPT ![port] = Append(@, s)]
           /\ acc' = IF NeedsGrab(port) THEN [st |-> "grab", s |-> s, frame |-> NoFrame]
                     ELSE acc
    /\ UNCHANGED << call, rx, reconnect, timer, handler >>
    /\ UNCHANGED << mainPc, robot_config, is_running, tcp_running, mqtt_connected,
                    message_queue, injected, reporting_timers, sequence_counter, ml,
                    agv_info_by_vehicle_id, agv_connections, latest_data_cache,
                    lastRecv, recvCount, published, warnings, task_id_counter >>

\* _send_control_grab_command: the packet is built and client_socket.send is
\* entered; a send on a socket that stop_servers closed raises and is logged
GrabBegin ==
    /\ acc.st = "grab"
    /\ LET frame == Frame(sequence_counter, control_grab_config.message_type,
                          [nick_name |-> control_grab_config.nick_name], "grab")
       IN  /\ sequence_counter' = next_sequence_counter(sequence_counter)
           /\ IF sock[acc.s].open
              THEN /\ wire' = [wire EXCEPT ![acc.s] = Append(@, WireEvent("begin", frame))]
                   /\ acc' = [acc EXCEPT !.st = "sending", !.frame = frame]
                   /\ sock' = sock
              ELSE /\ wire' = [wire EXCEPT ![acc.s] = Append(@, WireEvent("fail", frame))]
                   /\ acc' = AccIdle
                   /\ sock' = [sock EXCEPT ![acc.s].thread = "run"]
    /\ UNCHANGED << call, rx, reconnect, timer, handler >>
    /\ UNCHANGED << mainPc, robot_config, is_running, tcp_running, mqtt_connected,
                    message_queue, injected, reporting_timers, client_connections, ml,
                    agv_info_by_vehicle_id, agv_connections, latest_data_cache,
                    lastRecv, recvCount, published, warnings, task_id_counter >>

\* client_socket.send returns; the connection thread is started
GrabEnd ==
    /\ acc.st = "sending"
    /\ wire' = [wire EXCEPT ![acc.s] = Append(@, WireEvent("end", acc.frame))]
    /\ sock' = [sock EXCEPT ![acc.s].thread = "run"]
    /\ acc' = AccIdle
    /\ UNCHANGED << call, rx, reconnect, timer, handler >>
    /\ UNCHANGED << mainPc, robot_config, is_running, tcp_running, mqtt_connected,
                    message_queue, injected, reporting_timers, client_connections,
                    sequence_counter, ml, agv_info_by_vehicle_id, agv_connections,
                    latest_data_cache, lastRecv, recvCount, published, warnings,
                    task_id_counter >>

\* ---------------------------------------------------------------------------
\* Connection threads (_handle_client)
\* ---------------------------------------------------------------------------
\* recv() returns a chunk: parse it, and cache it when it came in on pushAPI
Recv(s, chunk) ==
    /\ tcp_running
    /\ sock[s].thread = "run"
    /\ sock[s].open
    /\ recvCount < MaxRecv
    /\ recvCount' = recvCount + 1
    /\ lastRecv' = [s |-> s, chunk |-> chunk]
    /\ LET port_type == tcp_ports[sock[s].port]
           parsed == parse_tcp_data(chunk, port_type)
           tcp_data == Put(parsed, "connection_id", s)
           vehicle_id == Get(tcp_data, "vehicle_id", "UNKNOWN_AGV")
           manufacturer == Get(tcp_data, "manufacturer", default_agv_info.manufacturer)
       IN  IF parsed # None /\ port_type = "pushAPI"
           THEN /\ agv_info_by_vehicle_id' =
                       get_or_create_agv_info(agv_info_by_vehicle_id, vehicle_id,
                                              manufacturer, s)
                /\ agv_connections' = Put(agv_connections, s, vehicle_id)
                /\ latest_data_cache' =
                       handle_state_data_cache(latest_data_cache, tcp_data,
                                               reporting_options)
                /\ published' = published \cup
                       (IF mqtt_connected THEN handle_state_data_publishes(tcp_data)
                        ELSE {})
           ELSE UNCHANGED << agv_info_by_vehicle_id, agv_connections,
                             latest_data_cache, published >>
    /\ UNCHANGED << call, rx, reconnect, timer, handler >>
    /\ UNCHANGED << mainPc, robot_config, is_running, tcp_running, mqtt_connected,
                    message_queue, injected, reporting_timers, sock, client_connections,
                    wire, sequence_counter, acc, ml, warnings, task_id_counter >>

\* a variant in which the thread closes its socket but stays in its loop
CloseAndStay(s) ==
    /\ sock' = [sock EXCEPT ![s].open = FALSE]
    /\ client_connections' =
           [client_connections EXCEPT ![sock[s].port] = RemoveFirst(@, s)]

\* the finally block of _handle_client: close the socket, drop it from the list
CloseAndRemove(s) ==
    /\ sock' = [sock EXCEPT ![s].open = FALSE, ![s].thread = "done"]
    /\ client_connections' =
           [client_connections EXCEPT ![sock[s].port] = RemoveFirst(@, s)]

\* recv() returns no data (the peer closed) or raises (read error)
RecvEOF(s) ==
    /\ tcp_running
    /\ sock[s].thread = "run"
    /\ sock[s].open
    /\ CloseAndRemove(s)
    /\ UNCHANGED << call, rx, reconnect, timer, handler >>
    /\ UNCHANGED << mainPc, robot_config, is_running, tcp_running, mqtt_connected,
                    message_queue, injected, reporting_timers, wire, sequence_counter,
                    acc, ml, agv_info_by_vehicle_id, agv_connections,
                    latest_data_cache, lastRecv, recvCount, published, warnings,
                    task_id_counter >>

\* the thread leaves its loop because the server stopped or its socket was closed
ClientExit(s) ==
    /\ sock[s].thread = "run"
    /\ ~tcp_running \/ ~sock[s].open
    /\ CloseAndRemove(s)
    /\ UNCHANGED << call, rx, reconnect, timer, handler >>
    /\ UNCHANGED << mainPc, robot_config, is_running, tcp_running, mqtt_connected,
                    message_queue, injected, reporting_timers, wire, sequence_counter,
                    acc, ml, agv_info_by_vehicle_id, agv_connections,
                    latest_data_cache, lastRecv, recvCount, published, warnings,
                    task_id_counter >>

\* ---------------------------------------------------------------------------
\* Scheduled reports (_periodic_report)
\* ---------------------------------------------------------------------------
PeriodicReport(message_type) ==
    /\ is_running
    /\ message_type \in DOMAIN reporting_timers
    /\ LET vs == Reported(message_type)
           data(v) == report_data(latest_data_cache, v, agv_info_by_vehicle_id[v],
                                  message_type, reporting_options, robot_config)
       IN  /\ published' = published \cup
                  { Uplink(message_type, agv_info_by_vehicle_id[v].manufacturer,
                           agv_info_by_vehicle_id[v].serial_number, data(v)) : v \in vs }
           /\ latest_data_cache' =
                  [v \in DOMAIN latest_data_cache |->
                     IF v \in vs
                     THEN [latest_data_cache[v] EXCEPT ![message_type] = data(v)]
                     ELSE latest_data_cache[v]]
    /\ UNCHANGED << call, rx, reconnect, timer, handler >>
    /\ UNCHANGED << mainPc, robot_config, is_running, tcp_running, mqtt_connected,
                    message_queue, injected, reporting_timers, sock, client_connections,
                    wire, sequence_counter, acc, ml, agv_info_by_vehicle_id,
                    agv_connections, lastRecv, recvCount, warnings, task_id_counter >>

\* ---------------------------------------------------------------------------
\* Downlink message loop (_start_message_loop, _handle_mqtt_message)
\* ---------------------------------------------------------------------------
HasFactsheetRequest(payload) ==
    \E i \in DOMAIN Get(payload, "actions", << >>) :
        Get(payload.actions[i], "actionType", "") = "factsheetRequest"

factsheet_request_publishes_nothing(target_agv) == {}

\* _handle_factsheet_request: the factsheet published for the addressed vehicle
factsheet_request_publishes(target_agv) ==
    { Uplink("factsheet", target_agv.manufacturer, target_agv.serial_number,
             generate_factsheet_message(target_agv, robot_config)) }

\* the loop takes one message off the queue; the handler translates it into
\* the list of packets to send
MlGet ==
    /\ is_running
    /\ ml.st = "idle"
    /\ message_queue # << >>
    /\ message_queue' = Tail(message_queue)
    /\ LET m == Head(message_queue)
           target_agv == parse_topic_for_agv_info(m.topic)
           isOrder == handle_mqtt_message(m.topic) = "order"
           isInstant == handle_mqtt_message(m.topic) = "instantActions"
           r == IF isOrder THEN vda5050_order_to_tcp(m.payload, task_id_counter.order)
                ELSE IF isInstant
                     THEN vda5050_instant_actions_to_tcp(m.payload, task_id_counter.instant)
                     ELSE [items |-> << >>, tc |-> 0]
       IN  /\ ml' = IF r.items = << >> THEN MlIdle
                    ELSE [MlIdle EXCEPT !.st = "item", !.items = r.items,
                                        !.target = target_agv.serial_number]
           /\ task_id_counter' =
                  IF isOrder THEN [task_id_counter EXCEPT !.order = r.tc]
                  ELSE IF isInstant THEN [task_id_counter EXCEPT !.instant = r.tc]
                  ELSE task_id_counter
           /\ published' =
                  IF isInstant /\ HasFactsheetRequest(m.payload) /\ mqtt_connected
                  THEN published \cup factsheet_request_publishes(target_agv)
                  ELSE published
    /\ UNCHANGED << call, rx, reconnect, timer, handler >>
    /\ UNCHANGED << mainPc, robot_config, is_running, tcp_running, mqtt_connected,
                    injected, reporting_timers, sock, client_connections, wire,
                    sequence_counter, acc, agv_info_by_vehicle_id, agv_connections,
                    latest_data_cache, lastRecv, recvCount, warnings >>

\* the list _send_to_specific_agv hands the packet to: every connection of the
\* port, whether or not the addressed vehicle is registered
send_targets(target, port, conns, info) == conns[port]

\* the loop is done with the current packet
MlNextItem(m) ==
    IF Len(m.items) <= 1 THEN MlIdle
    ELSE [MlIdle EXCEPT !.st = "item", !.items = Tail(m.items), !.target = m.target]

\* _send_to_specific_agv + the head of send_to_agv_with_type for one packet:
\* look up the target, take the port's connections, build the packet
MlItem ==
    /\ ml.st = "item"
    /\ LET item == Head(ml.items)
           known == ml.target \in DOMAIN agv_info_by_vehicle_id
           connections == send_targets(ml.target, item.port, client_connections,
                                       agv_info_by_vehicle_id)
           w1 == IF known THEN {}
                 ELSE {[kind |-> "target_not_connected", target |-> ml.target,
                        port |-> item.port]}
       IN  IF connections = << >>
           THEN /\ warnings' = warnings \cup w1 \cup
                       {[kind |-> "no_connection_on_port", target |-> ml.target,
                         port |-> item.port]}
                /\ ml' = MlNextItem(ml)
                /\ UNCHANGED sequence_counter
           ELSE /\ warnings' = warnings \cup w1
                /\ sequence_counter' = next_sequence_counter(sequence_counter)
                /\ ml' = [ml EXCEPT !.st = "send", !.conns = connections,
                                    !.port = item.port,
                                    !.frame = Frame(sequence_counter, item.message_type,
                                                    item.data, ml.target)]
    /\ UNCHANGED << call, rx, reconnect, timer, handler >>
    /\ UNCHANGED << mainPc, robot_config, is_running, tcp_running, mqtt_connected,
                    message_queue, injected, reporting_timers, sock, client_connections,
                    wire, acc, agv_info_by_vehicle_id, agv_connections,
                    latest_data_cache, lastRecv, recvCount, published, task_id_counter >>

\* conn.send(tcp_packet) is entered for the next connection of the snapshot; on
\* a closed socket it raises: the connection is removed from the list, and when
\* it is no longer in the list the whole send is abandoned
MlSendBegin ==
    /\ ml.st = "send"
    /\ LET conn == Head(ml.conns)
       IN  IF sock[conn].open
           THEN /\ wire' = [wire EXCEPT ![conn] = Append(@, WireEvent("begin", ml.frame))]
                /\ ml' = [ml EXCEPT !.st = "sending"]
                /\ UNCHANGED client_connections
           ELSE /\ wire' = [wire EXCEPT ![conn] = Append(@, WireEvent("fail", ml.frame))]
                /\ IF conn \in Range(client_connections[ml.port])
                   THEN /\ client_connections' =
                               [client_connections EXCEPT ![ml.port] = RemoveFirst(@, conn)]
                        /\ ml' = IF Len(ml.conns) <= 1 THEN MlNextItem(ml)
                                 ELSE [ml EXCEPT !.conns = Tail(@)]
                   ELSE /\ UNCHANGED client_connections
                        /\ ml' = MlNextItem(ml)
    /\ UNCHANGED << call, rx, reconnect, timer, handler >>
    /\ UNCHANGED << mainPc, robot_config, is_running, tcp_running, mqtt_connected,
                    message_queue, injected, reporting_timers, sock, sequence_counter,
                    acc, agv_info_by_vehicle_id, agv_connections, latest_data_cache,
                    lastRecv, recvCount, published, warnings, task_id_counter >>

\* conn.send returns
MlSendEnd ==
    /\ ml.st = "sending"
    /\ wire' = [wire EXCEPT ![Head(ml.conns)] = Append(@, WireEvent("end", ml.frame))]
    /\ ml' = IF Len(ml.conns) <= 1 THEN MlNextItem(ml)
             ELSE [ml EXCEPT !.st = "send", !.conns = Tail(@)]
    /\ UNCHANGED << call, rx, reconnect, timer, handler >>
    /\ UNCHANGED << mainPc, robot_config, is_running, tcp_running, mqtt_connected,
                    message_queue, injected, reporting_timers, sock, client_connections,
                    sequence_counter, acc, agv_info_by_vehicle_id, agv_connections,
                    latest_data_cache, lastRecv, recvCount, published, warnings,
                    task_id_counter >>

\* ---------------------------------------------------------------------------
\* Specification
\* ---------------------------------------------------------------------------
Next ==
    \/ StartOk
    \/ StartFail
    \/ StopTimers
    \/ StopMqtt
    \/ StopServers
    \/ \E m \in DownlinkMessages : OnMessage(m)
    \/ \E agv \in VehicleIds, port \in DialPorts : Accept(agv, port)
    \/ GrabBegin
    \/ GrabEnd
    \/ \E s \in DOMAIN sock : \E chunk \in Chunks(sock[s].agv, recvCount + 1) : Recv(s, chunk)
    \/ \E s \in DOMAIN sock : RecvEOF(s)
    \/ \E s \in DOMAIN sock : ClientExit(s)
    \/ \E t \in Topics : PeriodicReport(t)
    \/ MlGet
    \/ MlItem
    \/ MlSendBegin
    \/ MlSendEnd

Spec == Init /\ [][Next]_vars

\* ---------------------------------------------------------------------------
\* A connection thread fed a byte stream, and the packet functions applied to
\* byte strings
\* ---------------------------------------------------------------------------
\* the frames a vehicle writes, and the bytes that may precede them on the
\* stream (none, a control byte, a byte that is no UTF-8, white space)
PeerFrames ==
    [message_type : {StatusPushType, OrderMessageType}, data : {JsonEmptyDict, JsonIdDict}]

GarbagePrefixes == { << >>, << 0 >>, << 255 >>, << 32, 10 >> }

FrameBytes(frames) ==
    [i \in DOMAIN frames |->
        create_binary_tcp_packet(frames[i].message_type, frames[i].data, i)]

RECURSIVE Concat(_)
Concat(parts) == IF parts = << >> THEN << >> ELSE Head(parts) \o Concat(Tail(parts))

\* how the network may cut the stream into the results of recv(4096): all at
\* once, byte by byte, part by part, or every frame as its header and its body
Chunkings == {"whole", "bytes", "parts", "header_body"}

Cut(garbage, packets, chunking) ==
    LET stream == garbage \o Concat(packets)
        head == IF garbage = << >> THEN << >> ELSE << garbage >>
    IN  CASE chunking = "whole" -> << stream >>
          [] chunking = "bytes" -> [i \in DOMAIN stream |-> << stream[i] >>]
          [] chunking = "parts" -> head \o packets
          [] chunking = "header_body" ->
                 head \o Concat([i \in DOMAIN packets |->
                                   << Slice(packets[i], 0, 16),
                                      Slice(packets[i], 16, Len(packets[i])) >>])

\* a vehicle connects to the push port and writes garbage and frames
RxOpen(garbage, frames, chunking) ==
    /\ rx = RxIdle
    /\ call = NoCall
    /\ rx' = [ pending |-> Cut(garbage, FrameBytes(frames), chunking),
               parsed |-> << >>,
               sent |-> frames,
               garbage |-> garbage,
               chunking |-> chunking ]
    /\ UNCHANGED << bridge_vars, call, reconnect, timer, handler >>

\* a variant in which the data parsed last is handled ahead of the earlier ones
process_agv_data_overtaking(handled, tcp_data) == << tcp_data >> \o handled

\* the receive loop calls _process_agv_data itself and waits for it to return:
\* the calls made so far, in order, with the new one
process_agv_data(handled, tcp_data) == Append(handled, tcp_data)

\* one iteration of the loop of _handle_client: recv, _parse_tcp_data, and the
\* data callback when something was parsed
RxRecv ==
    /\ rx.pending # << >>
    /\ LET data == Head(rx.pending)
           tcp_data == TCPServerManager_parse_tcp_data(data, tcp_ports[PushPort])
       IN  rx' = [rx EXCEPT !.pending = Tail(@),
                            !.parsed = IF tcp_data = None THEN @
                                       ELSE process_agv_data(@, tcp_data)]
    /\ UNCHANGED << bridge_vars, call, reconnect, timer, handler >>

\* byte strings handed to the parsers: a header with the given sync byte,
\* length field and message type, followed by a body
PacketBodies ==
    { << >>, << 123, 125 >>, << 123, 34, 105, 100 >>,
      << 123, 34, 105, 100, 34, 58, 49, 125 >> }

PacketInputs ==
    { << sync, 1, 0, 1 >> \o to_bytes(data_length, 4) \o to_bytes(StatusPushType, 2)
          \o << 0, 0, 0, 0, 0, 0 >> \o body :
        sync \in {SyncHeader, 0}, data_length \in {0, 2, 8, 100001}, body \in PacketBodies }
    \cup { << SyncHeader, 1, 0, 1 >> }

CallManufacturerAParse(data) ==
    /\ call = NoCall
    /\ rx = RxIdle
    /\ call' = [fn |-> "ManufacturerATCPProtocol.parse_tcp_packet", arg |-> data,
                result |-> ManufacturerA_parse_tcp_packet(data)]
    /\ UNCHANGED << bridge_vars, rx, reconnect, timer, handler >>

CallTCPBinaryParserParse(data) ==
    /\ call = NoCall
    /\ rx = RxIdle
    /\ call' = [fn |-> "TCPBinaryParser.parse_tcp_packet", arg |-> data,
                result |-> TCPBinaryParser_parse_tcp_packet(data)]
    /\ UNCHANGED << bridge_vars, rx, reconnect, timer, handler >>

CallTCPBinaryProtocolParse(data) ==
    /\ call = NoCall
    /\ rx = RxIdle
    /\ call' = [fn |-> "TCPBinaryProtocol.parse_binary_packet", arg |-> data,
                result |-> TCPBinaryProtocol_parse_binary_packet(data)]
    /\ UNCHANGED << bridge_vars, rx, reconnect, timer, handler >>

\* create_binary_tcp_packet of a frame; the sequence number is the counter's
CallCreatePacket(message_type, data, sequence) ==
    /\ call = NoCall
    /\ rx = RxIdle
    /\ call' = [fn |-> "ManufacturerATCPProtocol.create_binary_tcp_packet",
                arg |-> [message_type |-> message_type, data |-> data],
                result |-> create_binary_tcp_packet(message_type, data, sequence)]
    /\ UNCHANGED << bridge_vars, rx, reconnect, timer, handler >>

\* instantActions payloads handed to the translator: up to three actions, known
\* to ACTION_CONFIG or not (factsheetRequest is not), with or without a headerId
InstantActionChoices ==
    { Action("pick", EmptyMap), Action("drop", EmptyMap), Action("startPause", EmptyMap),
      Action("clearErrors", [error_codes |-> << 52 >>]),
      Action("factsheetRequest", EmptyMap) }

InstantActionsPayloads ==
    [headerId : {0, 7},
     actions : UNION { [1 .. n -> InstantActionChoices] : n \in 1 .. MaxActions }]

\* ProtocolConverter.vda5050_instant_actions_to_tcp applied to a payload
CallInstantActions(actions_data) ==
    /\ call = NoCall
    /\ rx = RxIdle
    /\ LET r == vda5050_instant_actions_to_tcp(actions_data, task_id_counter.instant)
       IN  /\ call' = [fn |-> "ProtocolConverter.vda5050_instant_actions_to_tcp",
                       arg |-> actions_data, result |-> r.items]
           /\ task_id_counter' = [task_id_counter EXCEPT !.instant = r.tc]
    /\ UNCHANGED << mainPc, robot_config, is_running, tcp_running, mqtt_connected,
                    message_queue, injected, reporting_timers, sock, client_connections,
                    wire, sequence_counter, acc, ml, agv_info_by_vehicle_id,
                    agv_connections, latest_data_cache, lastRecv, recvCount, published,
                    warnings, rx, reconnect, timer, handler >>

\* orders handed to the translator: four nodes in either order, each with no
\* action, one action or three (detectObject has no vendor operation), and up
\* to MaxEdges distinct edges in any order; E2 and E3 share a sequenceId
NodeActionChoices == { << >>, << "pick" >>, << "drop", "detectObject", "turn" >> }

Node(node_id, sequence_id, actions) ==
    [nodeId |-> node_id, sequenceId |-> sequence_id, actions |-> actions]

NodeLists ==
    UNION { { << Node("N1", 0, a1), Node("N2", 2, a2), Node("N3", 4, a3), Node("N4", 6, a4) >>,
              << Node("N4", 6, a4), Node("N3", 4, a3), Node("N2", 2, a2), Node("N1", 0, a1) >> } :
            a1 \in NodeActionChoices, a2 \in { << >>, << "pick" >> },
            a3 \in NodeActionChoices, a4 \in { << >>, << "drop" >> } }

Edge(edge_id, sequence_id, start_node_id, end_node_id, actions) ==
    [edgeId |-> edge_id, sequenceId |-> sequence_id, startNodeId |-> start_node_id,
     endNodeId |-> end_node_id, actions |-> actions]

EdgeChoices ==
    UNION { { Edge("E1", 1, "N1", "N2", a), Edge("E2", 3, "N2", "N3", a),
              Edge("E3", 3, "N1", "N3", a) } :
            a \in { << >>, << "drop", "detectObject", "pick" >> } }

EdgeLists ==
    { << >> } \cup
    { es \in UNION { [1 .. n -> EdgeChoices] : n \in 1 .. MaxEdges } :
        \A i, j \in DOMAIN es : i # j => es[i].edgeId # es[j].edgeId }

Orders == [orderId : {"ORD1", ""}, nodes : NodeLists, edges : EdgeLists]

\* the orders a second translation by the same converter object is given
RepeatOrders ==
    [orderId : {"ORD1", ""},
     nodes : { << Node("N1", 0, << >>), Node("N2", 2, << >>), Node("N3", 4, << >>),
                  Node("N4", 6, << >>) >> },
     edges : { << e >> : e \in EdgeChoices }]

\* VDA5050ToTCPConverter.convert_vda5050_order_to_tcp_move_task_list applied
\* to an order, a first or a second time
CallOrder ==
    /\ rx = RxIdle
    /\ \E vda_json \in
           IF call = NoCall THEN Orders
           ELSE IF call.fn = "VDA5050ToTCPConverter.convert_vda5050_order_to_tcp_move_task_list"
                   /\ call.nth = 1
                THEN RepeatOrders ELSE {} :
         LET r == convert_vda5050_order_to_tcp_move_task_list(vda_json, task_id_counter.order)
         IN  /\ call' = [fn |-> "VDA5050ToTCPConverter.convert_vda5050_order_to_tcp_move_task_list",
                         arg |-> vda_json, result |-> r.data.move_task_list,
                         nth |-> IF call = NoCall THEN 1 ELSE 2]
             /\ task_id_counter' = [task_id_counter EXCEPT !.order = r.tc]
    /\ UNCHANGED << mainPc, robot_config, is_running, tcp_running, mqtt_connected,
                    message_queue, injected, reporting_timers, sock, client_connections,
                    wire, sequence_counter, acc, ml, agv_info_by_vehicle_id,
                    agv_connections, latest_data_cache, lastRecv, recvCount, published,
                    warnings, rx, reconnect, timer, handler >>

\* payloads that probe the registry: one action of each type a fleet manager
\* may send, and the four actions of test_action_config_analysis together
ProbedActionTypes ==
    { "pick", "drop", "startPause", "stopPause", "cancelOrder", "translate", "turn",
      "rotateLoad", "reloc", "cancelReloc", "clearErrors", "grabAuthority",
      "releaseAuthority", "softEmc" }

RegistryProbes ==
    { << Action(t, EmptyMap) >> : t \in ProbedActionTypes }
    \cup { << Action("startPause", EmptyMap), Action("stopPause", EmptyMap),
              Action("grabAuthority", EmptyMap), Action("releaseAuthority", EmptyMap) >> }

\* VDA5050InstantActionsToTCPConverter.analyze_instant_action_configs applied
\* to a payload
CallAnalyze(actions) ==
    /\ call = NoCall
    /\ rx = RxIdle
    /\ call' = [fn |-> "VDA5050InstantActionsToTCPConverter.analyze_instant_action_configs",
                arg |-> actions, result |-> analyze_instant_action_configs(actions)]
    /\ UNCHANGED << bridge_vars, rx, reconnect, timer, handler >>

\* state pushes handed to the uplink converters: a position, with or without
\* angle, confidence, is_stop and speeds
StatePushes ==
    { Restrict([vehicle_id |-> "A", x |-> 1000, y |-> 2000, current_map |-> "map1",
                angle |-> angle, confidence |-> confidence, is_stop |-> is_stop,
                vx |-> vx, w |-> 500],
               {"vehicle_id", "x", "y", "current_map"} \cup given) :
        angle \in {0, 4000, 0 - 90000, 270000}, confidence \in {500, 1500},
        is_stop \in BOOLEAN, vx \in {0, 1000},
        given \in SUBSET {"angle", "confidence", "is_stop", "vx", "w"} }

\* _handle_state_data caches a push; result is what the state and the
\* visualization publisher generate from the cache entry
CallHandleStateData(tcp_data) ==
    /\ call = NoCall
    /\ rx = RxIdle
    /\ LET entry == handle_state_data_cache(EmptyMap, tcp_data,
                                            reporting_options)[tcp_data.vehicle_id]
       IN  call' = [fn |-> "VDA5050Server._handle_state_data",
                    arg |-> tcp_data,
                    result |-> [state |-> generate_state_message(entry),
                                visualization |-> generate_visualization_message(entry)]]
    /\ UNCHANGED << bridge_vars, rx, reconnect, timer, handler >>

\* topics the broker delivers for the subscriptions /uagv/v2/+/+/order and
\* /uagv/v2/+/+/instantActions
DeliveredTopics ==
    { Topic(manufacturer, serial, kind) :
        manufacturer \in {"Demo_Manufacturer", "orderbots", "instantActionsLab"},
        serial \in {"A", "order-7"}, kind \in {"order", "instantActions"} }

\* _handle_mqtt_message applied to a delivered message
CallHandleMqttMessage(topic) ==
    /\ call = NoCall
    /\ rx = RxIdle
    /\ call' = [fn |-> "VDA5050Server._handle_mqtt_message",
                arg |-> [topic |-> topic],
                result |-> handle_mqtt_message(topic)]
    /\ UNCHANGED << bridge_vars, rx, reconnect, timer, handler >>

\* orders whose route comes back to its first node: N1 is listed twice, with
\* its own actions each time, and starts the first edge
RevisitOrders ==
    { [orderId |-> "ORD1",
       nodes |-> << Node("N1", 0, a1), Node("N2", 2, a2), Node("N1", 4, a3) >>,
       edges |-> << Edge("E1", 1, "N1", "N2", a4), Edge("E4", 3, "N2", "N1", << >>) >>] :
        a1 \in { << >>, << "pick" >> }, a2 \in { << >>, << "drop" >> },
        a3 \in NodeActionChoices, a4 \in { << >>, << "turn" >> } }

\* ProtocolConverter.vda5050_order_to_tcp applied to an order
CallOrderToTcp(order_data) ==
    /\ call = NoCall
    /\ rx = RxIdle
    /\ LET r == vda5050_order_to_tcp(order_data, task_id_counter.order)
       IN  /\ call' = [fn |-> "ProtocolConverter.vda5050_order_to_tcp",
                       arg |-> order_data, result |-> r.items]
           /\ task_id_counter' = [task_id_counter EXCEPT !.order = r.tc]
    /\ UNCHANGED << mainPc, robot_config, is_running, tcp_running, mqtt_connected,
                    message_queue, injected, reporting_timers, sock, client_connections,
                    wire, sequence_counter, acc, ml, agv_info_by_vehicle_id,
                    agv_connections, latest_data_cache, lastRecv, recvCount, published,
                    warnings, rx, reconnect, timer, handler >>

NextCalls ==
    \/ \E garbage \in GarbagePrefixes, chunking \in Chunkings :
           \E f1 \in PeerFrames : \/ RxOpen(garbage, << f1 >>, chunking)
                                  \/ \E f2 \in PeerFrames :
                                         RxOpen(garbage, << f1, f2 >>, chunking)
    \/ RxRecv
    \/ \E data \in PacketInputs : CallManufacturerAParse(data)
    \/ \E data \in PacketInputs : CallTCPBinaryParserParse(data)
    \/ \E data \in PacketInputs : CallTCPBinaryProtocolParse(data)
    \/ \E f \in PeerFrames, sequence \in {1, 65535} :
           CallCreatePacket(f.message_type, f.data, sequence)
    \/ \E actions_data \in InstantActionsPayloads : CallInstantActions(actions_data)
    \/ CallOrder
    \/ \E actions \in RegistryProbes : CallAnalyze(actions)
    \/ \E tcp_data \in StatePushes : CallHandleStateData(tcp_data)
    \/ \E topic \in DeliveredTopics : CallHandleMqttMessage(topic)
    \/ \E order_data \in RevisitOrders : CallOrderToTcp(order_data)

SpecCalls == Init /\ [][NextCalls]_vars

\* ---------------------------------------------------------------------------
\* The MQTT connection: _on_disconnect and the _reconnect thread
\* ---------------------------------------------------------------------------
max_retries == 5

MaxReconnects == 2

\* return codes handed to _on_disconnect: 0 is an orderly disconnect
DisconnectCodes == {0, 7}

\* _on_disconnect: the flag is cleared, and for rc != 0 a _reconnect thread is
\* started
OnDisconnect(rc) ==
    /\ mainPc = "running"
    /\ mqtt_connected
    /\ rc # 0 => Len(reconnect) < MaxReconnects
    /\ mqtt_connected' = FALSE
    /\ reconnect' = IF rc # 0
                    THEN Append(reconnect, [st |-> "loop", retry_count |-> 0, wait_time |-> 0])
                    ELSE reconnect
    /\ UNCHANGED << mainPc, robot_config, is_running, tcp_running, message_queue,
                    injected, reporting_timers, sock, client_connections, wire,
                    sequence_counter, acc, ml, agv_info_by_vehicle_id, agv_connections,
                    latest_data_cache, lastRecv, recvCount, published, warnings,
                    task_id_counter, call, rx, timer, handler >>

\* wait_time = min(retry_count * 2, 30)
reconnect_wait_time(retry_count) ==
    IF retry_count * 2 < 30 THEN retry_count * 2 ELSE 30

\* one iteration of the while loop of _reconnect: count, sleep, client.reconnect();
\* the broker answers, refuses, or the call raises
ReconnectAttempt(i, outcome) ==
    /\ i \in DOMAIN reconnect
    /\ reconnect[i].st = "loop"
    /\ reconnect[i].retry_count < max_retries /\ ~mqtt_connected
    /\ reconnect' = [reconnect EXCEPT
                       ![i].retry_count = @ + 1,
                       ![i].wait_time = reconnect_wait_time(reconnect[i].retry_count + 1)]
    /\ mqtt_connected' = (outcome = "connected")
    /\ UNCHANGED << mainPc, robot_config, is_running, tcp_running, message_queue,
                    injected, reporting_timers, sock, client_connections, wire,
                    sequence_counter, acc, ml, agv_info_by_vehicle_id, agv_connections,
                    latest_data_cache, lastRecv, recvCount, published, warnings,
                    task_id_counter, call, rx, timer, handler >>

\* the while condition is false: the thread ends, logging that reconnection
\* failed when the client is still not connected
ReconnectExit(i) ==
    /\ i \in DOMAIN reconnect
    /\ reconnect[i].st = "loop"
    /\ ~(reconnect[i].retry_count < max_retries /\ ~mqtt_connected)
    /\ reconnect' = [reconnect EXCEPT
                       ![i].st = IF mqtt_connected THEN "done" ELSE "given_up"]
    /\ UNCHANGED << bridge_vars, call, rx, timer, handler >>

NextMqtt ==
    \/ StartOk
    \/ StopTimers
    \/ StopMqtt
    \/ \E m \in DownlinkMessages : OnMessage(m)
    \/ \E rc \in DisconnectCodes : OnDisconnect(rc)
    \/ \E i \in 1 .. MaxReconnects :
           \E outcome \in {"connected", "refused", "raises"} : ReconnectAttempt(i, outcome)
    \/ \E i \in 1 .. MaxReconnects : ReconnectExit(i)

\* the reconnect threads are scheduled like any other thread
SpecMqtt ==
    /\ Init
    /\ [][NextMqtt]_vars
    /\ \A i \in 1 .. MaxReconnects :
           WF_vars(ReconnectExit(i)
                   \/ \E outcome \in {"connected", "refused", "raises"} :
                          ReconnectAttempt(i, outcome))

\* ---------------------------------------------------------------------------
\* A tick of _periodic_report, step by step: the Timer fires, the loop over
\* agv_info_by_vehicle_id.items() reports vehicle after vehicle while the
\* connection threads run, and the Timer is started again at the end
\* ---------------------------------------------------------------------------
\* the Timer of message_type is running
Armed(message_type) ==
    /\ message_type \in DOMAIN reporting_timers
    /\ message_type \notin timer.dead
    /\ timer.tick.message_type # message_type

\* the Timer fires: _periodic_report passes the is_running test and creates the
\* iterator over the dictionary
TimerFire(message_type) ==
    /\ is_running
    /\ Armed(message_type)
    /\ timer.tick = NoTick
    /\ timer' = [timer EXCEPT !.tick = [message_type |-> message_type,
                                        used |-> Cardinality(DOMAIN agv_info_by_vehicle_id),
                                        todo |-> DOMAIN agv_info_by_vehicle_id]]
    /\ UNCHANGED << bridge_vars, call, rx, reconnect, handler >>

\* the iterator yields the next vehicle: _report_message_for_agv
TickReport(v) ==
    /\ timer.tick # NoTick
    /\ Cardinality(DOMAIN agv_info_by_vehicle_id) = timer.tick.used
    /\ v \in timer.tick.todo
    /\ LET message_type == timer.tick.message_type
           data == report_data(latest_data_cache, v, agv_info_by_vehicle_id[v],
                               message_type, reporting_options, robot_config)
           sent == mqtt_connected /\ data # None
       IN  /\ published' =
                  IF sent
                  THEN published \cup
                           { Uplink(message_type, agv_info_by_vehicle_id[v].manufacturer,
                                    agv_info_by_vehicle_id[v].serial_number, data) }
                  ELSE published
           /\ latest_data_cache' =
                  IF sent
                  THEN [latest_data_cache EXCEPT ![v][message_type] = data]
                  ELSE latest_data_cache
    /\ timer' = [timer EXCEPT !.tick.todo = @ \ {v}]
    /\ UNCHANGED << mainPc, robot_config, is_running, tcp_running, mqtt_connected,
                    message_queue, injected, reporting_timers, sock, client_connections,
                    wire, sequence_counter, acc, ml, agv_info_by_vehicle_id,
                    agv_connections, lastRecv, recvCount, warnings, task_id_counter,
                    call, rx, reconnect, handler >>

\* the iterator is advanced after a connection thread has added a vehicle:
\* RuntimeError (dictionary changed size during iteration), caught by the
\* except clause of _periodic_report, which starts no Timer
TickRaise ==
    /\ timer.tick # NoTick
    /\ Cardinality(DOMAIN agv_info_by_vehicle_id) # timer.tick.used
    /\ timer' = [dead |-> timer.dead \cup {timer.tick.message_type}, tick |-> NoTick]
    /\ UNCHANGED << bridge_vars, call, rx, reconnect, handler >>

\* the loop is over: the Timer is started again while the bridge is running
TickRearm ==
    /\ timer.tick # NoTick
    /\ Cardinality(DOMAIN agv_info_by_vehicle_id) = timer.tick.used
    /\ timer.tick.todo = {}
    /\ timer' = IF timer.tick.message_type \in DOMAIN reporting_timers /\ is_running
                THEN [timer EXCEPT !.tick = NoTick]
                ELSE [dead |-> timer.dead \cup {timer.tick.message_type}, tick |-> NoTick]
    /\ UNCHANGED << bridge_vars, call, rx, reconnect, handler >>

NextTimers ==
    \/ StartOk
    \/ StopTimers
    \/ StopMqtt
    \/ StopServers
    \/ \E agv \in VehicleIds, port \in DialPorts : Accept(agv, port)
    \/ GrabBegin
    \/ GrabEnd
    \/ \E s \in DOMAIN sock : \E chunk \in Chunks(sock[s].agv, recvCount + 1) : Recv(s, chunk)
    \/ \E s \in DOMAIN sock : RecvEOF(s)
    \/ \E s \in DOMAIN sock : ClientExit(s)
    \/ \E t \in Topics : TimerFire(t)
    \/ \E v \in VehicleIds : TickReport(v)
    \/ TickRaise
    \/ TickRearm

\* a Timer that is due fires, and a tick under way goes on
SpecTimers ==
    /\ Init
    /\ [][NextTimers]_vars
    /\ \A t \in Topics : WF_vars(TimerFire(t))
    /\ WF_vars(TickRaise \/ TickRearm \/ \E v \in VehicleIds : TickReport(v))

\* ---------------------------------------------------------------------------
\* Observations used by the properties
\* ---------------------------------------------------------------------------
\* the sockets the server holds open
Live == { s \in DOMAIN sock : sock[s].open }

\* the send calls recorded on socket s that satisfy P
SendCalls(s, P(_)) == { i \in DOMAIN wire[s] : P(wire[s][i]) }

IsGrabFrame(f) ==
    /\ f.message_type = control_grab_config.message_type
    /\ f.data = [nick_name |-> control_grab_config.nick_name]

\* send calls (entered or raised) of the grab frame on socket s
GrabCalls(s) ==
    SendCalls(s, LAMBDA e : e.ev \in {"begin", "fail"} /\ IsGrabFrame(e.frame))

\* grab frames whose send returned
GrabSent(s) == SendCalls(s, LAMBDA e : e.ev = "end" /\ IsGrabFrame(e.frame))

ConnectionMessages == { m \in published : m.topic = "connection" }

OfflinePublished(agv) ==
    \E m \in ConnectionMessages :
        /\ m.serial_number = agv
        /\ Get(m.data, "connectionState", "") = "OFFLINE"

\* the chunk is a framed state push: header with type 9300, then a JSON body
IsStatePush(chunk) ==
    /\ Len(chunk) = 2
    /\ chunk[1].u = "hdr" /\ chunk[1].mt = StatusPushType
    /\ chunk[2].u = "json"

\* ---------------------------------------------------------------------------
\* Properties
\* ---------------------------------------------------------------------------
\* C1: an order for a serial is written, with message type 3066, only to the
\* movement-port socket of that serial; no socket of another AGV receives it.
C1_OrderOnlyToAddressedAgv ==
    \A s \in DOMAIN wire : \A i \in DOMAIN wire[s] :
        (wire[s][i].ev = "begin" /\ "move_task_list" \in DOMAIN wire[s][i].frame.data)
            => /\ wire[s][i].frame.message_type = OrderMessageType
               /\ sock[s].port = MovementPort
               /\ sock[s].agv = wire[s][i].frame.for

\* C2: when the target of a downlink message has no live socket, the message is
\* dropped: a warning is logged and no frame of it is written to any socket.
C2_UnconnectedTargetDropped ==
    [][ (ml.st = "send" /\ ~\E t \in Live : sock[t].agv = ml.target)
            => /\ \E w \in warnings : w.target = ml.target
               /\ \A s \in DOMAIN wire :
                     Len(wire'[s]) > Len(wire[s])
                         => wire'[s][Len(wire'[s])].ev # "begin" ]_vars

\* C3: every socket opened on the authority port gets exactly one send of the
\* grab frame (type 4005, body nick_name): none before the accept loop reaches
\* the grab step, one from then on, never a second, and never on another port.
C3_OneGrabPerOpen ==
    \A s \in DOMAIN sock :
        /\ Cardinality(GrabCalls(s)) =
               (IF sock[s].port = AuthorityPort
                   /\ (sock[s].thread # "none" \/ (acc.s = s /\ acc.st = "sending"))
                THEN 1 ELSE 0)
        /\ Cardinality(GrabSent(s)) <= Cardinality(GrabCalls(s))

\* an authority socket whose grab frame has been sent and whose connection
\* thread runs
C3_Witness ==
    \E s \in DOMAIN sock :
        /\ sock[s].port = AuthorityPort
        /\ sock[s].thread = "run"
        /\ Cardinality(GrabSent(s)) = 1

\* C4: a framed state push (type 9300, JSON body) received on the state-push
\* port updates the cache entry of the serial its vehicle_id names.
C4_StatePushCached ==
    (/\ lastRecv # None
     /\ sock[lastRecv.s].port = PushPort
     /\ IsStatePush(lastRecv.chunk))
        => LET body == lastRecv.chunk[2].obj
           IN  /\ body.vehicle_id \in DOMAIN latest_data_cache
               /\ latest_data_cache[body.vehicle_id].last_tcp_data # None
               /\ latest_data_cache[body.vehicle_id].last_tcp_data.x = body.x

\* C5: once started, the four scheduled publishers run, with the periods
\* 1000/2000/5000/30000 ms for every topic the configuration does not override.
C5_DefaultPublishersStarted ==
    mainPc = "running" =>
        \A t \in Topics :
            /\ t \in DOMAIN reporting_timers
            /\ LET given == Get(Get(Get(robot_config, "mqtt_reporting", EmptyMap),
                                    "reporting_intervals", EmptyMap), t, 0)
               IN  reporting_timers[t] = (IF given > 0 THEN given ELSE DefaultIntervals[t])

\* C6: when a socket has hit EOF or a read error it is closed and an OFFLINE
\* connection message has been published for its AGV.
C6_OfflineOnSocketLoss ==
    \A s \in DOMAIN sock :
        (sock[s].thread = "done" /\ mqtt_connected)
            => (~sock[s].open /\ OfflinePublished(sock[s].agv))

C8_ShutdownOrder ==
    (mainPc \in {"stop_tcp", "stopped"} /\ ~mqtt_connected)
        => /\ reporting_timers = EmptyMap
           /\ \A p \in DOMAIN client_connections :
                \A i \in DOMAIN client_connections[p] :
                    LET s == client_connections[p][i]
                    IN  ~sock[s].open /\ OfflinePublished(sock[s].agv)

\* C9: at most one live socket per (AGV, port role).
C9_OneLiveSocketPerRole ==
    \A s, t \in Live :
        (sock[s].agv = sock[t].agv /\ sock[s].port = sock[t].port) => s = t

\* C10: sends on one socket are serialised: a send that has been entered
\* returns before the next send on that socket is entered.
C10_SendsSerialised ==
    \A s \in DOMAIN wire : \A i \in DOMAIN wire[s] :
        (wire[s][i].ev = "begin" /\ i < Len(wire[s]))
            => wire[s][i + 1] = WireEvent("end", wire[s][i].frame)

\* C11: on any single socket the sequence counter reflects wire order: of two
\* frames written on the socket, the one written earlier carries the earlier
\* counter value.
C11_SequenceFollowsWireOrder ==
    \A s \in DOMAIN wire : \A i, j \in DOMAIN wire[s] :
        (i < j /\ wire[s][i].ev = "begin" /\ wire[s][j].ev = "begin")
            => wire[s][i].frame.sequence < wire[s][j].frame.sequence

\* C12: once a connection has taken in a whole stream made of a garbage prefix
\* followed by two frames, it has emitted exactly those two frames, in order.
C12_GarbageThenTwoFrames ==
    (rx.garbage # << >> /\ Len(rx.sent) = 2 /\ rx.pending = << >>)
        => /\ Len(rx.parsed) = 2
           /\ \A i \in 1 .. 2 : rx.parsed[i].json = rx.sent[i].data

\* C13: a frame that arrives one byte per recv() is still decoded: once the last
\* byte is in, the connection has delivered the frame, with its body.
C13_ByteWiseFrameDelivered ==
    (rx.chunking = "bytes" /\ rx.garbage = << >> /\ Len(rx.sent) = 1 /\ rx.pending = << >>)
        => /\ Len(rx.parsed) = 1
           /\ rx.parsed[1].json = rx.sent[1].data

\* the body a parser returned with a frame, as bytes
ReturnedBody(result) ==
    IF "raw_payload" \in DOMAIN result
    THEN (IF result.raw_payload = None THEN << >> ELSE result.raw_payload)
    ELSE IF "payload_raw" \in DOMAIN result THEN result.payload_raw
    ELSE Slice(result.raw_data, 16, 16 + result.data_length)

\* C14: every frame a parser emits has sync = 0x5A, 1 <= body-length <= 100000
\* and a body of exactly body-length bytes.
C14_EmittedFrameWellFormed ==
    (call.fn \in { "ManufacturerATCPProtocol.parse_tcp_packet",
                   "TCPBinaryParser.parse_tcp_packet",
                   "TCPBinaryProtocol.parse_binary_packet" }
     /\ call.result # None)
        => /\ call.result.sync_header = 90
           /\ call.result.data_length >= 1
           /\ call.result.data_length <= 100000
           /\ Len(ReturnedBody(call.result)) = call.result.data_length

\* C15: decoding the bytes that encoding a frame (message type, body) produced
\* gives back the same message type and the same body.
C15_DecodeEncodeIsIdentity ==
    call.fn = "ManufacturerATCPProtocol.create_binary_tcp_packet"
        => LET decoded == ManufacturerA_parse_tcp_packet(call.result)
           IN  /\ decoded # None
               /\ decoded.message_type = call.arg.message_type
               /\ decoded.payload = call.arg.data

\* the actions of a payload that the registry ACTION_CONFIG knows, in order
Recognised(actions) ==
    SelectSeq(actions, LAMBDA a : a.actionType \in DOMAIN ACTION_CONFIG)

\* C16: translating an instantActions payload gives one (port, message type,
\* body) triple per recognised action, in the input's order; an action of
\* unknown type is dropped and the other actions are still translated.
C16_OneTriplePerRecognisedAction ==
    call.fn = "ProtocolConverter.vda5050_instant_actions_to_tcp"
        => LET rec == Recognised(call.arg.actions)
           IN  /\ Len(call.result) = Len(rec)
               /\ \A i \in DOMAIN rec :
                      /\ call.result[i].port = ACTION_CONFIG[rec[i].actionType].port
                      /\ call.result[i].message_type
                             = ACTION_CONFIG[rec[i].actionType].message_type
                      /\ "move_task_list" \in DOMAIN call.result[i].data
                             => call.result[i].data.move_task_list[1].operation
                                    = ACTION_MAPPING[rec[i].actionType]

\* a payload with an unknown action between two known ones gave two triples
C16_Witness ==
    /\ call.fn = "ProtocolConverter.vda5050_instant_actions_to_tcp"
    /\ Len(call.arg.actions) = 3
    /\ call.arg.actions[1].actionType = "pick"
    /\ call.arg.actions[2].actionType \notin DOMAIN ACTION_CONFIG
    /\ call.arg.actions[3].actionType = "startPause"
    /\ Len(call.result) = 2
    /\ call.result[2].message_type = 3001

\* the order translator was applied; its steps; a step that is a move
OrderCall ==
    call.fn = "VDA5050ToTCPConverter.convert_vda5050_order_to_tcp_move_task_list"

IsMove(step) == "operation" \notin DOMAIN step

IsInPlace(step, operation) ==
    /\ "operation" \in DOMAIN step
    /\ step.operation = operation
    /\ step.source_id = "SELF_POSITION"
    /\ step.id = "SELF_POSITION"

\* the vendor operations of a list of actions (actions without one give none)
Operations(actions) ==
    LET known == SelectSeq(actions, LAMBDA a : a \in DOMAIN VDA5050_TO_TCP_ACTION_MAPPING)
    IN  [i \in 1 .. Len(known) |-> VDA5050_TO_TCP_ACTION_MAPPING[known[i]]]

IsMoveOf(step, edge) ==
    IsMove(step) /\ step.source_id = edge.startNodeId /\ step.id = edge.endNodeId

\* the position of the move step of an edge in a list of steps
MoveOf(list, edge) == CHOOSE p \in DOMAIN list : IsMoveOf(list[p], edge)

\* C17: edges are processed in ascending sequenceId: every edge gives exactly
\* one move step from its startNodeId to its endNodeId, directly followed by
\* one in-place step per action of the edge, and the move steps appear in
\* ascending sequenceId order whatever the order of the edges in the payload.
C17_MovesInSequenceOrder ==
    OrderCall
        => LET list == call.result
               edges == call.arg.edges
           IN  /\ Len(SelectSeq(list, IsMove)) = Len(edges)
               /\ \A i \in DOMAIN edges :
                      /\ \E p \in DOMAIN list : IsMoveOf(list[p], edges[i])
                      /\ LET p == MoveOf(list, edges[i])
                             ops == Operations(edges[i].actions)
                         IN  /\ p + Len(ops) <= Len(list)
                             /\ \A k \in DOMAIN ops : IsInPlace(list[p + k], ops[k])
               /\ \A i, j \in DOMAIN edges :
                      edges[i].sequenceId < edges[j].sequenceId
                          => MoveOf(list, edges[i]) < MoveOf(list, edges[j])

\* an order whose edges came in descending sequenceId, the later one with
\* actions, was translated: the move of E1 comes first, E2's actions follow E2
C17_Witness ==
    /\ OrderCall
    /\ call.arg.orderId = "ORD1"
    /\ Len(call.arg.edges) = 2
    /\ call.arg.edges[1].edgeId = "E2"
    /\ call.arg.edges[1].actions # << >>
    /\ call.arg.edges[2].edgeId = "E1"
    /\ MoveOf(call.result, call.arg.edges[2]) < MoveOf(call.result, call.arg.edges[1])
    /\ MoveOf(call.result, call.arg.edges[1]) + 2 = Len(call.result)

\* the in-place steps that a list of nodes or edges asks for, one per operation
OperationCount(items) ==
    Cardinality({ ik \in (DOMAIN items) \X (1 .. 3) :
                    ik[2] <= Len(Operations(items[ik[1]].actions)) })

\* C18: for an edge whose startNodeId has pending node actions, one in-place
\* step per action stands immediately before the edge's move step; the node's
\* actions are then removed, so no in-place step is emitted a second time.
C18_StartNodeActionsBeforeMove ==
    OrderCall
        => LET list == call.result
               nodes == call.arg.nodes
               edges == call.arg.edges
           IN  /\ \A i \in DOMAIN nodes : \A j \in DOMAIN edges :
                      LET ops == Operations(nodes[i].actions)
                          p == MoveOf(list, edges[j])
                      IN  ( /\ Len(ops) > 0
                            /\ edges[j].startNodeId = nodes[i].nodeId
                            /\ \A j2 \in DOMAIN edges :
                                   edges[j2].startNodeId = nodes[i].nodeId
                                       => p <= MoveOf(list, edges[j2]) )
                          => /\ p > Len(ops)
                             /\ \A k \in DOMAIN ops :
                                    IsInPlace(list[p - Len(ops) + k - 1], ops[k])
               /\ Cardinality({ s \in DOMAIN list : ~IsMove(list[s]) })
                      = OperationCount(nodes) + OperationCount(edges)

\* N1 with drop, detectObject, turn is the start of both edges: its two steps
\* stand before the first move, and only there
C18_Witness ==
    /\ OrderCall
    /\ call.arg.orderId = "ORD1"
    /\ Len(call.arg.edges) = 2
    /\ \A j \in 1 .. 2 : call.arg.edges[j].startNodeId = "N1"
    /\ call.arg.nodes[1].nodeId = "N1"
    /\ call.arg.nodes[1].actions = << "drop", "detectObject", "turn" >>
    /\ IsInPlace(call.result[1], "JackUnload")
    /\ IsInPlace(call.result[2], "Turn")
    /\ IsMove(call.result[3])
    /\ Cardinality({ s \in DOMAIN call.result : ~IsMove(call.result[s]) }) = 2

\* the nodes whose actions no edge served: those that start no edge
StartsNoEdge(node, edges) == \A j \in DOMAIN edges : edges[j].startNodeId # node.nodeId

\* the position of the last move step of a list (0 when there is none), and
\* the edge it belongs to
LastMove(list) ==
    IF \E p \in DOMAIN list : IsMove(list[p])
    THEN CHOOSE p \in DOMAIN list :
             IsMove(list[p]) /\ \A q \in DOMAIN list : IsMove(list[q]) => q <= p
    ELSE 0

RECURSIVE OperationsOfAll(_)
OperationsOfAll(nodes) ==
    IF Len(nodes) = 0 THEN << >>
    ELSE Operations(Head(nodes).actions) \o OperationsOfAll(Tail(nodes))

\* C19: after the last edge (its move step and its own actions) come the
\* pending actions of that edge's endNodeId and then the actions of every node
\* still pending, in the order of the node list; nothing else follows.
C19_EndNodeThenRemainingNodes ==
    (OrderCall /\ Len(call.arg.edges) > 0)
        => LET list == call.result
               nodes == call.arg.nodes
               edges == call.arg.edges
               p == LastMove(list)
               last_edge == edges[CHOOSE j \in DOMAIN edges : IsMoveOf(list[p], edges[j])]
               first == p + Len(Operations(last_edge.actions)) + 1
               tail == SubSeq(list, first, Len(list))
               end_nodes == SelectSeq(nodes, LAMBDA n :
                                n.nodeId = last_edge.endNodeId /\ StartsNoEdge(n, edges))
               others == SelectSeq(nodes, LAMBDA n :
                                n.nodeId # last_edge.endNodeId /\ StartsNoEdge(n, edges))
               expected == OperationsOfAll(end_nodes) \o OperationsOfAll(others)
           IN  /\ Len(tail) = Len(expected)
               /\ \A k \in DOMAIN expected : IsInPlace(tail[k], expected[k])

\* the node list is N4, N3, N2, N1 and the only edge ends at N3: N3's actions
\* come first after the move, then N4's, although N4 is listed before N3
C19_Witness ==
    /\ OrderCall
    /\ call.arg.orderId = "ORD1"
    /\ call.arg.nodes[1].nodeId = "N4"
    /\ call.arg.nodes[1].actions = << "drop" >>
    /\ call.arg.nodes[2].actions = << "pick" >>
    /\ Len(call.arg.edges) = 1
    /\ call.arg.edges[1].edgeId = "E2"
    /\ call.arg.nodes[3].actions = << >>
    /\ call.arg.nodes[4].actions = << >>
    /\ IsMove(call.result[1])
    /\ IsInPlace(call.result[Len(call.result) - 1], "JackLoad")
    /\ IsInPlace(call.result[Len(call.result)], "JackUnload")

\* C20: within one order translation the task_id of the i-th step combines the
\* orderId with the counter value i, counting from 1 ({orderId}_{i}), so the
\* task_ids of the translation are unique and increasing.
C20_TaskIdIsOrderIdAndCounter ==
    OrderCall
        => \A i \in DOMAIN call.result :
               /\ call.result[i].task_id.n = i
               /\ call.arg.orderId # "" => call.result[i].task_id.base = call.arg.orderId

\* the static mapping table of the specification: port role, message type and
\* body shape of every VDA5050 action
MappingRow(port, message_type, shape) ==
    [port |-> port, message_type |-> message_type, shape |-> shape]

StaticMapping ==
    [pick |-> MappingRow(MovementPort, 3066, "move_task_list"),
     drop |-> MappingRow(MovementPort, 3066, "move_task_list"),
     startPause |-> MappingRow(MovementPort, 3001, "empty_data"),
     stopPause |-> MappingRow(MovementPort, 3002, "empty_data"),
     cancelOrder |-> MappingRow(MovementPort, 3003, "empty_data"),
     translate |-> MappingRow(MovementPort, 3055, "single_field"),
     turn |-> MappingRow(MovementPort, 3056, "single_field"),
     rotateLoad |-> MappingRow(MovementPort, 3057, "single_field"),
     reloc |-> MappingRow(RelocationPort, 2002, "single_field"),
     cancelReloc |-> MappingRow(RelocationPort, 2004, "empty_data"),
     clearErrors |-> MappingRow(AuthorityPort, 4009, "single_field"),
     grabAuthority |-> MappingRow(AuthorityPort, 4005, "single_field"),
     releaseAuthority |-> MappingRow(AuthorityPort, 4006, "single_field"),
     softEmc |-> MappingRow(SafetyPort, 6004, "single_field")]

AnalyzeCall ==
    call.fn = "VDA5050InstantActionsToTCPConverter.analyze_instant_action_configs"

\* C21: the registry reproduces the static mapping table: every action of the
\* table is recognised and bound to the table's port, message type and body
\* shape (startPause, grabAuthority and releaseAuthority included).
C21_RegistryMatchesStaticMapping ==
    (AnalyzeCall /\ Len(call.arg) = 1)
        => LET action_type == call.arg[1].actionType
               row == StaticMapping[action_type]
           IN  /\ Len(call.result) = 1
               /\ call.result[1].port = row.port
               /\ call.result[1].messageType = row.message_type
               /\ ACTION_CONFIG[action_type].data_format = row.shape

\* the configuration test_instant_actions_fix.py expects
ExpectedConfigs ==
    [startPause |-> [port |-> 19206, messageType |-> 3002],
     stopPause |-> [port |-> 19206, messageType |-> 3001],
     grabAuthority |-> [port |-> 19207, messageType |-> 4005],
     releaseAuthority |-> [port |-> 19207, messageType |-> 4006]]

\* C22: for startPause, stopPause, grabAuthority and releaseAuthority both
\* ACTION_CONFIG and the result of analyze_instant_action_configs give
\* (19206, 3002), (19206, 3001), (19207, 4005) and (19207, 4006).
C22_ConfigMatchesTest ==
    AnalyzeCall
        => \A i \in DOMAIN call.arg :
               LET action_type == call.arg[i].actionType
               IN  action_type \in DOMAIN ExpectedConfigs
                       => /\ action_type \in DOMAIN ACTION_CONFIG
                          /\ ACTION_CONFIG[action_type].port
                                 = ExpectedConfigs[action_type].port
                          /\ ACTION_CONFIG[action_type].message_type
                                 = ExpectedConfigs[action_type].messageType
                          /\ \E k \in DOMAIN call.result :
                                 /\ call.result[k].actionType = action_type
                                 /\ call.result[k].port = ExpectedConfigs[action_type].port
                                 /\ call.result[k].messageType
                                        = ExpectedConfigs[action_type].messageType

\* the message loop takes the head of the queue on this step
MlGetStep ==
    /\ is_running
    /\ ml.st = "idle"
    /\ message_queue # << >>
    /\ message_queue' = Tail(message_queue)

OtherActions(payload) ==
    { i \in DOMAIN payload.actions : payload.actions[i].actionType # "factsheetRequest" }

\* C23: when the loop handles an instantActions message that carries a
\* factsheetRequest, a factsheet uplink for the addressed AGV is published and
\* the request adds no packet to the TCP egress: the packets to send are one per
\* other action of the message.
C23_FactsheetRequestPublishesNoEgress ==
    [][(MlGetStep /\ mqtt_connected
        /\ Head(message_queue).topic[5] = "instantActions"
        /\ HasFactsheetRequest(Head(message_queue).payload))
           => LET m == Head(message_queue)
              IN  /\ \E u \in published' :
                         /\ u.topic = "factsheet"
                         /\ u.manufacturer = m.topic[3]
                         /\ u.serial_number = m.topic[4]
                  /\ Len(ml'.items) = Cardinality(OtherActions(m.payload))
                  /\ \A k \in DOMAIN ml'.items :
                         ml'.items[k].message_type
                             \in { ACTION_CONFIG[m.payload.actions[i].actionType].message_type :
                                       i \in OtherActions(m.payload) }
                  /\ wire' = wire]_vars

C23_Witness ==
    /\ \E u \in published : u.topic = "factsheet" /\ u.serial_number = "B"
    /\ "B" \notin DOMAIN latest_data_cache

\* C24: an MQTT disconnect is recovered locally: the reconnect thread retries
\* for as long as the client is not connected and never ends, after a finite
\* number of attempts, with the client still disconnected.
C24_ReconnectNeverGivenUp ==
    \A i \in DOMAIN reconnect :
        ~(reconnect[i].st = "given_up" /\ mainPc = "running")

StateCall == call.fn = "VDA5050Server._handle_state_data"

\* C25: every published state has 0 <= agvPosition.localizationScore <= 1 and
\* agvPosition.theta in [-pi, pi]; a vendor angle with |angle| > 2 pi is taken
\* as degrees and converted to radians.
C25_StateThetaAndScoreInRange ==
    (StateCall /\ call.result.state.agvPosition # None)
        => LET position == call.result.state.agvPosition
               angle == Get(call.arg, "angle", 0)
           IN  /\ 0 - math_pi <= position.theta /\ position.theta <= math_pi
               /\ "localizationScore" \in DOMAIN position
                      => 0 <= position.localizationScore
                         /\ position.localizationScore <= 1000
               /\ abs(angle) > 2 * math_pi
                      => \E turns \in -1 .. 1 :
                             position.theta = radians(angle) + turns * 2 * math_pi

Moving(tcp_data) ==
    \E k \in DOMAIN tcp_data \cap {"vx", "vy", "w"} : tcp_data[k] # 0

\* C26: driving is the negation of is_stop when the push carries is_stop; when
\* it does not, driving is true exactly when the reported motion is non-zero.
C26_DrivingFromStopOrMotion ==
    StateCall
        => IF "is_stop" \in DOMAIN call.arg
           THEN call.result.state.driving = ~call.arg.is_stop
           ELSE call.result.state.driving = Moving(call.arg)

\* C27: the visualization derived from a state push carries the same
\* agvPosition (x, y, theta, map) and the same velocity as the state derived
\* from that push.
C27_VisualizationSameAsState ==
    StateCall
        => LET state == call.result.state
               visualization == call.result.visualization
           IN  /\ (state.agvPosition = None) = (visualization.agvPosition = None)
               /\ state.agvPosition # None /\ visualization.agvPosition # None
                      => \A k \in {"x", "y", "theta", "mapId"} :
                             state.agvPosition[k] = visualization.agvPosition[k]
               /\ (state.velocity = None) = (visualization.velocity = None)
               /\ state.velocity # None /\ visualization.velocity # None
                      => \A k \in DOMAIN visualization.velocity :
                             state.velocity[k] = visualization.velocity[k]

\* C28: a downlink message is dispatched on the kind segment of its topic:
\* kind order to the order translator, kind instantActions to the
\* instant-action translator, whatever manufacturer and serial contain.
C28_DispatchOnKindSegment ==
    call.fn = "VDA5050Server._handle_mqtt_message"
        => call.result = call.arg.topic[5]

\* the frames written on socket s, in wire order
FramesSent(s) == SelectSeq(wire[s], LAMBDA e : e.ev = "begin")

\* C29: sequence numbers come from a per-session counter that advances by one
\* per frame sent on the session and wraps at 2^16: of two frames written one
\* after the other on a socket the second carries the first's number plus one,
\* modulo 2^16.
C29_SequencePerSession ==
    \A s \in DOMAIN wire :
        \A i \in 1 .. Len(FramesSent(s)) - 1 :
            FramesSent(s)[i + 1].frame.sequence
                = (FramesSent(s)[i].frame.sequence + 1) % 65536

\* C30: a scheduled publisher is long-lived: while the bridge is running, every
\* publisher that was started either has its Timer running or is in the middle
\* of a tick, whatever happened during the ticks before.
C30_PublisherStaysAlive ==
    is_running
        => \A message_type \in DOMAIN reporting_timers :
               Armed(message_type) \/ timer.tick.message_type = message_type

\* the vehicles with at least one socket open
ConnectedVehicles == { sock[s].agv : s \in Live }

\* C31: once every socket of an AGV has closed, no further state,
\* visualization or connection = ONLINE message is published for it until it
\* connects again: a step on which the AGV has no open socket adds no such
\* message for it.
C31_NoUplinkAfterLastSocketClosed ==
    [][\A m \in published' \ published :
           (/\ m.topic \in {"state", "visualization", "connection"}
            /\ m.topic = "connection" => m.data.connectionState = "ONLINE")
               => m.serial_number \in ConnectedVehicles]_vars

\* ---------------------------------------------------------------------------
\* C32: a failed translation of an order or of an instant action results in no
\* TCP egress for it: no frame whose send is entered on any socket carries an
\* error record as its body.
\* ---------------------------------------------------------------------------
IsErrorRecord(data) == "error" \in DOMAIN data

C32_NoErrorRecordSent ==
    \A s \in DOMAIN wire :
        \A i \in DOMAIN wire[s] :
            wire[s][i].ev = "begin" => ~IsErrorRecord(wire[s][i].frame.data)

\* ---------------------------------------------------------------------------
\* C33: on a newly accepted authority-port socket the grabAuthority frame is
\* the first frame written: whatever send call is recorded first on such a
\* socket is the send of the grab frame, never that of a downlink command.
\* ---------------------------------------------------------------------------
C33_GrabIsFirstFrame ==
    \A s \in DOMAIN sock :
        (NeedsGrab(sock[s].port) /\ wire[s] # << >>) => IsGrabFrame(wire[s][1].frame)

\* ---------------------------------------------------------------------------
\* C34: frames received on a single socket are handed to the uplink translator
\* in wire order: the bodies handed over so far are, in the order of the calls,
\* bodies of frames the vehicle wrote, taken in the order it wrote them.
\* ---------------------------------------------------------------------------
InWireOrder(handled, sent) ==
    \E f \in [DOMAIN handled -> DOMAIN sent] :
        /\ \A i, j \in DOMAIN handled : i < j => f[i] < f[j]
        /\ \A i \in DOMAIN handled : handled[i].json = sent[f[i]].data

C34_DeliveredInWireOrder == InWireOrder(rx.parsed, rx.sent)

\* two frames with different bodies were written and both were handed over
C34_Witness ==
    /\ Len(rx.sent) = 2
    /\ rx.sent[1].data # rx.sent[2].data
    /\ Len(rx.parsed) = 2
    /\ rx.pending = << >>

\* ---------------------------------------------------------------------------
\* Downlink bursts: the fleet manager publishes up to MaxQueued messages, the
\* k-th with headerId (orderId) k, to vehicles with sockets on the movement port
\* ---------------------------------------------------------------------------
MaxQueued == 2

QueuedMessages(k) ==
    { [topic |-> Topic("Demo_Manufacturer", agv, "instantActions"),
       payload |-> [headerId |-> k, actions |-> actions]] :
        agv \in VehicleIds,
        actions \in { << Action("pick", EmptyMap) >>,
                      << Action("drop", EmptyMap), Action("pick", EmptyMap) >> } }
    \cup { [topic |-> Topic("Demo_Manufacturer", agv, "order"),
            payload |-> [Order1 EXCEPT !.orderId = ToString(k)]] : agv \in VehicleIds }

\* _on_message for the next message of the burst
OnMessageQueued(m) ==
    /\ mqtt_connected
    /\ injected < MaxQueued
    /\ injected' = injected + 1
    /\ message_queue' = queue_put(message_queue, m)
    /\ UNCHANGED << call, rx, reconnect, timer, handler >>
    /\ UNCHANGED << mainPc, robot_config, is_running, tcp_running, mqtt_connected,
                    reporting_timers, sock, client_connections, wire, sequence_counter,
                    acc, ml, agv_info_by_vehicle_id, agv_connections,
                    latest_data_cache, lastRecv, recvCount, published, warnings,
                    task_id_counter >>

NextDownlink ==
    \/ StartOk
    \/ \E m \in QueuedMessages(injected + 1) : OnMessageQueued(m)
    \/ \E agv \in VehicleIds : Accept(agv, MovementPort)
    \/ \E s \in DOMAIN sock : RecvEOF(s)
    \/ MlGet
    \/ MlItem
    \/ MlSendBegin
    \/ MlSendEnd

SpecDownlink == Init /\ [][NextDownlink]_vars

\* the sends of task lists entered on socket s, in order
TaskListSends(s) ==
    SelectSeq(wire[s], LAMBDA e : e.ev = "begin" /\ "move_task_list" \in DOMAIN e.frame.data)

\* the position in the burst of the message a task-list frame was made from
ArrivalOf(frame) ==
    CHOOSE k \in 1 .. injected : ToString(k) = frame.data.move_task_list[1].task_id.base

\* C35: downlink messages are processed one at a time in arrival order: of two
\* frames written on one socket, the one written first was made from the message
\* that arrived first (or both from the same message).
C35_FramesInArrivalOrder ==
    \A s \in DOMAIN wire :
        \A i, j \in DOMAIN TaskListSends(s) :
            i < j => ArrivalOf(TaskListSends(s)[i].frame) <= ArrivalOf(TaskListSends(s)[j].frame)

\* a socket on which frames of the first and of the second message were written
C35_Witness ==
    \E s \in DOMAIN wire :
        \E i, j \in DOMAIN TaskListSends(s) :
            /\ ArrivalOf(TaskListSends(s)[i].frame) = 1
            /\ ArrivalOf(TaskListSends(s)[j].frame) = 2

\* ---------------------------------------------------------------------------
\* State pushes and the scheduled publishers at the grain of single cache
\* writes: a receive thread inside _handle_state_data is at the write it makes
\* next; the timer threads run between any two writes
\* ---------------------------------------------------------------------------
MaxPushes == 2

\* the n-th push a vehicle writes: position and stop flag change together
StatePush(agv, n) ==
    [vehicle_id |-> agv, x |-> n * 1000, y |-> n * 1000, angle |-> 0, is_stop |-> n = 1]

\* _handle_client receives and parses a push; _handle_state_data begins:
\* _get_or_create_agv_info registers the vehicle
RecvPush(s) ==
    /\ tcp_running
    /\ sock[s].thread = "run"
    /\ sock[s].open
    /\ sock[s].port = PushPort
    /\ s \notin DOMAIN handler
    /\ recvCount < MaxPushes
    /\ recvCount' = recvCount + 1
    /\ LET push == StatePush(sock[s].agv, recvCount + 1)
           tcp_data == Put(push, "connection_id", s)
       IN  /\ lastRecv' = [s |-> s, chunk |-> << JsonUnit(push) >>]
           /\ agv_info_by_vehicle_id' =
                  get_or_create_agv_info(agv_info_by_vehicle_id, tcp_data.vehicle_id,
                                         default_agv_info.manufacturer, s)
           /\ agv_connections' = Put(agv_connections, s, tcp_data.vehicle_id)
           /\ handler' = Put(handler, s, [pc |-> "entry", tcp_data |-> tcp_data])
    /\ UNCHANGED << mainPc, robot_config, is_running, tcp_running, mqtt_connected,
                    message_queue, injected, reporting_timers, sock, client_connections,
                    wire, sequence_counter, acc, ml, latest_data_cache, published,
                    warnings, task_id_counter, call, rx, reconnect, timer >>

\* the next write of _handle_state_data in thread s: the empty entry of a new
\* vehicle, last_tcp_data, then the three converted messages
HandleStateDataStep(s) ==
    /\ s \in DOMAIN handler
    /\ LET pc == handler[s].pc
           tcp_data == handler[s].tcp_data
           vehicle_id == tcp_data.vehicle_id
           converted == Get(reporting_options, "cache_latest_data", TRUE)
           value == CASE pc = "last_tcp_data" -> tcp_data
                      [] pc = "state" -> tcp_state_to_vda5050(tcp_data)
                      [] pc = "visualization" -> tcp_state_to_visualization(tcp_data)
                      [] pc = "connection" -> create_connection_message(tcp_data)
                      [] OTHER -> None
           next == CASE pc = "entry" -> "last_tcp_data"
                     [] pc = "last_tcp_data" -> IF converted THEN "state" ELSE "return"
                     [] pc = "state" -> "visualization"
                     [] pc = "visualization" -> "connection"
                     [] OTHER -> "return"
       IN  /\ latest_data_cache' =
                  IF pc = "entry"
                  THEN (IF vehicle_id \in DOMAIN latest_data_cache THEN latest_data_cache
                        ELSE Put(latest_data_cache, vehicle_id, EmptyCacheEntry))
                  ELSE [latest_data_cache EXCEPT ![vehicle_id][pc] = value]
           /\ handler' = IF next = "return"
                         THEN [t \in DOMAIN handler \ {s} |-> handler[t]]
                         ELSE [handler EXCEPT ![s].pc = next]
    /\ UNCHANGED << mainPc, robot_config, is_running, tcp_running, mqtt_connected,
                    message_queue, injected, reporting_timers, sock, client_connections,
                    wire, sequence_counter, acc, ml, agv_info_by_vehicle_id,
                    agv_connections, lastRecv, recvCount, published, warnings,
                    task_id_counter, call, rx, reconnect, timer >>

NextCache ==
    \/ StartOk
    \/ \E agv \in VehicleIds : Accept(agv, PushPort)
    \/ \E s \in DOMAIN sock : RecvPush(s)
    \/ \E s \in DOMAIN sock : HandleStateDataStep(s)
    \/ \E t \in Topics : PeriodicReport(t)

SpecCache == Init /\ [][NextCache]_vars

\* the pushes that may have been received so far, as the handler sees them
PushesReceived ==
    { Put(StatePush(sock[s].agv, n), "connection_id", s) :
        s \in DOMAIN sock, n \in 1 .. recvCount }

\* what the publisher of a topic makes of one push
PayloadOf(topic, tcp_data) ==
    CASE topic = "state" -> tcp_state_to_vda5050(tcp_data)
      [] topic = "visualization" -> tcp_state_to_visualization(tcp_data)
      [] topic = "connection" -> create_connection_message(tcp_data)

NextStop ==
    \/ StartOk
    \/ StartFail
    \/ StopTimers
    \/ StopMqtt
    \/ StopServers
    \/ \E m \in DownlinkMessages : OnMessage(m)
    \/ \E port \in {AuthorityPort, PushPort} : Accept("A", port)
    \/ GrabBegin
    \/ GrabEnd
    \/ \E s \in DOMAIN sock : \E chunk \in Chunks(sock[s].agv, recvCount + 1) : Recv(s, chunk)
    \/ \E s \in DOMAIN sock : RecvEOF(s)
    \/ \E s \in DOMAIN sock : ClientExit(s)
    \/ TimerFire("state")
    \/ \E v \in VehicleIds : TickReport(v)
    \/ TickRaise
    \/ TickRearm
    \/ MlGet
    \/ MlItem
    \/ MlSendBegin
    \/ MlSendEnd

SpecStop ==
    /\ Init
    /\ [][NextStop]_vars
    /\ WF_vars(\E s \in DOMAIN sock : ClientExit(s))
    /\ WF_vars(GrabBegin \/ GrabEnd)
    /\ WF_vars(MlItem \/ MlSendBegin \/ MlSendEnd)
    /\ WF_vars(TickRaise \/ TickRearm \/ \E v \in VehicleIds : TickReport(v))

\* no accept thread inside a grab, no connection thread alive, the message
\* loop out of its handler and unable to take a message, no tick under way and
\* no Timer left to fire
AllTasksExited ==
    /\ acc.st = "accept"
    /\ ~tcp_running
    /\ \A s \in DOMAIN sock : sock[s].thread = "done"
    /\ ml.st = "idle"
    /\ ~is_running
    /\ timer.tick = NoTick
    /\ \A t \in Topics : ~Armed(t)

\* C37: after shutdown is signalled every long-lived task (accept loops,
\* receive loops, message loop, scheduled publishers) exits: once stop() has
\* returned, the bridge reaches a state in which all of them have ended.
C37_TasksExitAfterStop == (mainPc = "stopped") ~> AllTasksExited

\* stop() has returned while a connection thread, the message loop's handler
\* and a tick are still under way
C37_Witness ==
    /\ mainPc = "stopped"
    /\ \E s \in DOMAIN sock : sock[s].thread = "run"
    /\ ml.st # "idle"
    /\ timer.tick # NoTick

\* ---------------------------------------------------------------------------
\* C38: translators are pure: no state is carried from one call to the next, so
\* whatever a converter object has translated before, the task list it returns
\* for an order is the one a new converter returns for that order.
\* ---------------------------------------------------------------------------
C38_ResultDependsOnArgumentOnly ==
    OrderCall
        => call.result =
               convert_vda5050_order_to_tcp_move_task_list(call.arg, 1).data.move_task_list

\* ---------------------------------------------------------------------------
\* C39: every recognised action of an order, on a node or on an edge, appears
\* as exactly one in-place step of the task list, none lost and none
\* duplicated: for every vendor operation the list has as many in-place steps
\* as the nodes and edges have actions that map to it.
\* ---------------------------------------------------------------------------
OrderToTcpCall == call.fn = "ProtocolConverter.vda5050_order_to_tcp"

\* the actions of a list of nodes or edges that map to the operation
ActionsFor(items, operation) ==
    { ik \in (DOMAIN items) \X (1 .. 3) :
        /\ ik[2] <= Len(Operations(items[ik[1]].actions))
        /\ Operations(items[ik[1]].actions)[ik[2]] = operation }

C39_EveryActionExactlyOnce ==
    OrderToTcpCall
        => LET list == call.result[1].data.move_task_list
           IN  \A operation \in Range(VDA5050_TO_TCP_ACTION_MAPPING) :
                   Cardinality({ p \in DOMAIN list : IsInPlace(list[p], operation) })
                       = Cardinality(ActionsFor(call.arg.nodes, operation))
                         + Cardinality(ActionsFor(call.arg.edges, operation))

\* ---------------------------------------------------------------------------
\* C40: within one instantActions payload the task_ids generated for its pick
\* and drop actions are pairwise distinct: no two packets made from the payload
\* carry the same task_id.
\* ---------------------------------------------------------------------------
InstantActionsCall == call.fn = "ProtocolConverter.vda5050_instant_actions_to_tcp"

C40_TaskIdsDistinctWithinPayload ==
    InstantActionsCall
        => \A i, j \in DOMAIN call.result :
               (/\ i # j
                /\ "move_task_list" \in DOMAIN call.result[i].data
                /\ "move_task_list" \in DOMAIN call.result[j].data)
                   => call.result[i].data.move_task_list[1].task_id
                          # call.result[j].data.move_task_list[1].task_id

====
